---- MODULE Spec2Model ----
(***************************************************************************)
(* Verification model of the PID-Controller-Tuner core:                    *)
(*   - src/src/tuning/ziegler_nichols.py   (sintonia_pid_ziegler_nichols)  *)
(*   - src/src/tuning/cohen_coon.py        (sintonia_pid_cohen_coon)       *)
(*   - src/src/core/transfer_function.py   (create_transfer_function,      *)
(*                                          get_poles, is_stable)          *)
(*   - src/src/simulation/metrics.py       (calcular_metricas_respuesta)   *)
(*   - src/src/simulation/open_loop.py     (simulate_step_response,        *)
(*                                          simulate_multiple_scenarios)   *)
(*   - src/API_BACKEND.py                  (simulate_closed_loop_with_pid) *)
(*   - src/app/pages/1_*_Home.py           (the Home page)                 *)
(*   - src/app/pages/2_*_Designer.py       (the Designer page)             *)
(*   - src/app/pages/3_*_Results.py        (the Results page)              *)
(*                                                                         *)
(* Python floats are modelled as exact extended rationals <<n, d>>:        *)
(*   d > 0  : the finite value n/d (in lowest terms)                       *)
(*   <<1,0>>: +inf     <<-1,0>>: -inf     <<0,0>>: nan                      *)
(* Rounding is abstracted away; inf/nan propagation and Python's           *)
(* ZeroDivisionError on a zero divisor are kept.                           *)
(***************************************************************************)
EXTENDS Integers, Sequences, FiniteSets, TLC

VARIABLES
    targs,      \* arguments of the tuning call: [K, L, T, criterion, control_type]
    tret,       \* outcome of the tuning call: [fn, kind, gains]
    stdout,     \* lines written by print()
    cmpret,     \* outcome of comparar_ziegler_vs_cohen_coon: [kind, result]
    tfargs,     \* arguments of the transfer-function calls: [numerator, denominator, tolerance]
    tfcall,     \* what the transfer-function calls have produced so far
    margs,      \* arguments of the metrics call: [t, y, yref, tolerance]
    mret,       \* outcome of the metrics call: [kind, msg, metrics]
    simargs,    \* arguments of the open-loop simulation: [tf, t_final, num_points,
                \* input_magnitude] and the python-control API installed
    simret,     \* outcome of the open-loop simulation: [kind, msg, time, output]
    scargs,     \* arguments of simulate_multiple_scenarios: [tf_list, labels, t_final,
                \* num_points] and the python-control API installed
    scret,      \* outcome of simulate_multiple_scenarios: [kind, msg, results]
    clargs,     \* arguments of the closed-loop simulation: [tf, pid_params, reference,
                \* t_final, dt]
    clret,      \* outcome of the closed-loop simulation: [kind, value]
    session,    \* st.session_state of the Streamlit application
    drun,       \* what the Designer page did in its last run, while it is the page shown
    rrun,       \* what the Results page did in its last run, while it is the page shown
    hist        \* history of the session: what the runs so far have done

tuning_vars  == <<targs, tret, stdout, cmpret>>
tf_vars      == <<tfargs, tfcall>>
metrics_vars == <<margs, mret>>
sim_vars     == <<simargs, simret>>
scenario_vars == <<scargs, scret>>
closed_vars  == <<clargs, clret>>
page_vars    == <<session, drun, rrun, hist>>
vars         == <<targs, tret, stdout, cmpret, tfargs, tfcall, margs, mret, simargs, simret,
                 scargs, scret, clargs, clret, session, drun, rrun, hist>>

-----------------------------------------------------------------------------
(* Extended rational arithmetic standing for Python float arithmetic.      *)

Abs(x) == IF x < 0 THEN -x ELSE x

Sgn(x) == IF x < 0 THEN -1 ELSE IF x > 0 THEN 1 ELSE 0

RECURSIVE GCD(_, _)
GCD(a, b) == IF b = 0 THEN a ELSE GCD(b, a % b)

\* canonical form of n/d (d may be any integer; d = 0 gives inf / nan)
Norm(n, d) ==
    IF d = 0 THEN <<Sgn(n), 0>>
    ELSE IF n = 0 THEN <<0, 1>>
    ELSE LET g == GCD(Abs(n), Abs(d))
             s == Sgn(d)
         IN  <<(s * n) \div g, (s * d) \div g>>

Num(n)   == <<n, 1>>
PosInf   == <<1, 0>>
NaN      == <<0, 0>>
Zero     == <<0, 1>>

IsNaN(a)    == a = NaN
IsInf(a)    == a[2] = 0 /\ a[1] # 0
IsFinite(a) == a[2] > 0

FMul(a, b) == Norm(a[1] * b[1], a[2] * b[2])

\* a / b for a divisor that is not zero (Python raises on a zero divisor)
FDiv(a, b) == Norm(a[1] * b[2], a[2] * b[1])

FAdd(a, b) ==
    IF a[2] = 0 /\ b[2] = 0
    THEN (IF a = b THEN a ELSE NaN)
    ELSE Norm(a[1] * b[2] + b[1] * a[2], a[2] * b[2])

FLt(a, b) ==
    IF IsNaN(a) \/ IsNaN(b) THEN FALSE
    ELSE IF a[2] = 0 /\ b[2] = 0 THEN a[1] < b[1]
    ELSE a[1] * b[2] < b[1] * a[2]

FLe(a, b) ==
    IF IsNaN(a) \/ IsNaN(b) THEN FALSE
    ELSE IF a[2] = 0 /\ b[2] = 0 THEN a[1] <= b[1]
    ELSE a[1] * b[2] <= b[1] * a[2]

FNeg(a)    == <<-a[1], a[2]>>
FSub(a, b) == FAdd(a, FNeg(b))
FAbs(a)    == <<Abs(a[1]), a[2]>>

FGt(a, b) == FLt(b, a)
FGe(a, b) == FLe(b, a)

-----------------------------------------------------------------------------
(* Outcomes of a call.                                                     *)

NoGains == << >>

Raise(kind)    == [kind |-> kind, gains |-> NoGains, printed |-> << >>]
Return(g, out) == [kind |-> "return", gains |-> g, printed |-> out]

-----------------------------------------------------------------------------
(* Ziegler-Nichols: src/src/tuning/ziegler_nichols.py                      *)

\* lines 163-184: the message-less result of the validation chain
ZN_Validate(K, L, T, control_type) ==
    IF FLe(K, Zero) THEN "TuningError"                        \* K <= 0
    ELSE IF FLt(L, Zero) THEN "TuningError"                   \* L < 0
    ELSE IF FLe(T, Zero) THEN "TuningError"                   \* T <= 0
    ELSE IF control_type \notin {"P", "PI", "PID"} THEN "TuningError"
    ELSE "ok"

\* lines 186-190: the three print() calls of the L/T warning
ZN_Warning(L, T) ==
    IF FGt(FDiv(L, T), <<1, 2>>)
    THEN << "Advertencia: Relacion L/T es muy alta (> 0.5)",
            "El metodo ZN es menos preciso en estos casos.",
            "Considera usar Cohen-Coon o aumentar T." >>
    ELSE << >>

\* lines 196-214: the gains, for a divisor L*K that is not zero
ZN_Gains(K, L, T, control_type) ==
    IF control_type = "P"
    THEN << FDiv(T, FMul(L, K)), PosInf, Zero >>
    ELSE IF control_type = "PI"
    THEN << FDiv(FMul(<<9, 10>>, T), FMul(L, K)), FMul(<<333, 100>>, L), Zero >>
    ELSE << FDiv(FMul(<<6, 5>>, T), FMul(L, K)), FMul(Num(2), L), FMul(<<1, 2>>, L) >>

\* the function as its docstring's Raises section describes it (lines 99-105):
\* L/T > 0.5 is an error instead of a printed warning
ZN_RaisingOnHighRatio(K, L, T, control_type) ==
    IF ZN_Validate(K, L, T, control_type) # "ok"
    THEN Raise("TuningError")
    ELSE IF ZN_Warning(L, T) # << >>
         THEN Raise("TuningError")
         ELSE IF FMul(L, K) = Zero
              THEN Raise("ZeroDivisionError")
              ELSE Return(ZN_Gains(K, L, T, control_type), << >>)

sintonia_pid_ziegler_nichols(K, L, T, control_type) ==
    IF ZN_Validate(K, L, T, control_type) # "ok"
    THEN Raise("TuningError")
    ELSE LET warned == ZN_Warning(L, T)
         IN  IF FMul(L, K) = Zero
             \* every branch evaluates  ... / (L * K)  first: float division by zero
             THEN [kind |-> "ZeroDivisionError", gains |-> NoGains, printed |-> warned]
             ELSE Return(ZN_Gains(K, L, T, control_type), warned)

-----------------------------------------------------------------------------
(* Cohen-Coon: src/src/tuning/cohen_coon.py                                *)

\* the validation with the dead-time check left out
CC_ValidateWithoutL(K, L, T, criterion, control_type) ==
    IF FLe(K, Zero) THEN "TuningError"
    ELSE IF FLe(T, Zero) THEN "TuningError"
    ELSE IF criterion \notin {"IAE", "ISE", "ITAE"} THEN "TuningError"
    ELSE IF control_type \notin {"PI", "PID"} THEN "TuningError"
    ELSE "ok"

\* lines 189-206
CC_Validate(K, L, T, criterion, control_type) ==
    IF FLe(K, Zero) THEN "TuningError"
    ELSE IF FLt(L, Zero) THEN "TuningError"
    ELSE IF FLe(T, Zero) THEN "TuningError"
    ELSE IF criterion \notin {"IAE", "ISE", "ITAE"} THEN "TuningError"
    ELSE IF control_type \notin {"PI", "PID"} THEN "TuningError"
    ELSE "ok"

\* lines 212-237: the PID gains of the criterion, for a divisor L*K that is not zero
CC_Criterion(K, L, T, criterion) ==
    LET ratio == FDiv(L, T)
        TLK   == FDiv(T, FMul(L, K))
    IN  IF criterion = "IAE"
        THEN IF FLt(ratio, <<3, 10>>)
             THEN << FDiv(FMul(<<135, 100>>, T), FMul(L, K)),
                     FMul(<<5, 2>>, L),
                     FMul(<<37, 100>>, L) >>
             ELSE << FMul(TLK, FAdd(FDiv(Num(4), Num(3)), FDiv(ratio, Num(4)))),
                     FDiv(FMul(L, FAdd(Num(32), FMul(Num(6), ratio))),
                          FAdd(Num(13), FMul(Num(8), ratio))),
                     FDiv(FMul(Num(4), L), FAdd(Num(11), FMul(Num(2), ratio))) >>
        ELSE IF criterion = "ISE"
        THEN << FDiv(FMul(<<1495, 1000>>, T), FMul(L, K)),
                FMul(<<157, 100>>, L),
                FMul(<<735, 1000>>, L) >>
        ELSE << FDiv(FMul(<<859, 1000>>, T), FMul(L, K)),
                FMul(<<674, 1000>>, L),
                FMul(<<134, 1000>>, L) >>

\* lines 239-243: PI drops the derivative term
CC_Gains(K, L, T, criterion, control_type) ==
    LET g == CC_Criterion(K, L, T, criterion)
    IN  IF control_type = "PI" THEN << g[1], g[2], Zero >> ELSE g

sintonia_pid_cohen_coon(K, L, T, criterion, control_type) ==
    IF CC_Validate(K, L, T, criterion, control_type) # "ok"
    THEN Raise("TuningError")
    ELSE IF FMul(L, K) = Zero
         THEN Raise("ZeroDivisionError")
         ELSE Return(CC_Gains(K, L, T, criterion, control_type), << >>)

\* lines 270-274: the returned dictionary
Comparison(zn, cc, L, T) ==
    [ ZN        |-> [Kp |-> zn[1], Ti |-> zn[2], Td |-> zn[3]],
      CC        |-> [Kp |-> cc[1], Ti |-> cc[2], Td |-> cc[3]],
      ratio_L_T |-> FDiv(L, T) ]

\* the comparison with Cohen-Coon run for the criterion ISE
comparar_with_ISE(K, L, T) ==
    LET zn == sintonia_pid_ziegler_nichols(K, L, T, "PID")
        cc == sintonia_pid_cohen_coon(K, L, T, "ISE", "PID")
    IN  IF zn.kind # "return"
        THEN [kind |-> zn.kind, result |-> << >>, printed |-> zn.printed]
        ELSE IF cc.kind # "return"
        THEN [kind |-> cc.kind, result |-> << >>, printed |-> zn.printed \o cc.printed]
        ELSE [kind |-> "return", result |-> << Comparison(zn.gains, cc.gains, L, T) >>,
              printed |-> zn.printed \o cc.printed]

\* lines 250-274: an exception of either tuning call ends the comparison
comparar_ziegler_vs_cohen_coon(K, L, T) ==
    LET zn == sintonia_pid_ziegler_nichols(K, L, T, "PID")
        cc == sintonia_pid_cohen_coon(K, L, T, "IAE", "PID")
    IN  IF zn.kind # "return"
        THEN [kind |-> zn.kind, result |-> << >>, printed |-> zn.printed]
        ELSE IF cc.kind # "return"
        THEN [kind |-> cc.kind, result |-> << >>, printed |-> zn.printed \o cc.printed]
        ELSE [kind |-> "return", result |-> << Comparison(zn.gains, cc.gains, L, T) >>,
              printed |-> zn.printed \o cc.printed]

-----------------------------------------------------------------------------
(* Performance metrics: src/src/simulation/metrics.py                      *)

\* line 224: the minimum number of samples
MinSamples == 10

\* np.max(y) of a non-empty array of finite values
RECURSIVE ArrayMax(_)
ArrayMax(y) ==
    IF Len(y) = 1 THEN y[1]
    ELSE LET m == ArrayMax(Tail(y))
         IN  IF FGt(y[1], m) THEN y[1] ELSE m

\* lines 266-273: within_band = |y - yref| <= tolerance * |yref|
WithinBand(y, yref, tolerance) ==
    [i \in 1..Len(y) |-> FLe(FAbs(FSub(y[i], yref)), FMul(tolerance, FAbs(yref)))]

\* the settling time taken at the last sample outside the band instead of the
\* sample after it
SettlingTimeAtLastOut(t, y, yref, tolerance) ==
    LET within == WithinBand(y, yref, tolerance)
        out    == {i \in 1..Len(y) : ~within[i]}
    IN  IF \A i \in 1..Len(y) : ~within[i] THEN t[Len(t)]
        ELSE IF out = {} THEN t[1]
        ELSE t[CHOOSE i \in out : \A j \in out : j <= i]

\* lines 265-288 (arrays are indexed from 1 here, from 0 in the source)
SettlingTime(t, y, yref, tolerance) ==
    LET within == WithinBand(y, yref, tolerance)
        out    == {i \in 1..Len(y) : ~within[i]}                 \* indices_out
    IN  IF \A i \in 1..Len(y) : ~within[i] THEN t[Len(t)]        \* never in the band
        ELSE IF out = {} THEN t[1]                               \* always in the band
        ELSE LET last_out == CHOOSE i \in out : \A j \in out : j <= i
             IN  IF last_out + 1 <= Len(t) THEN t[last_out + 1] ELSE t[Len(t)]

\* lines 220-246: the message of the MetricaError raised, or "ok"
MetricsCheck(t, y, yref, tolerance) ==
    IF Len(t) < MinSamples THEN "Vector t debe tener al menos 10 muestras"
    ELSE IF Len(t) # Len(y) THEN "Vectores t y y deben tener mismo tamano"
    ELSE IF \E i \in 1..Len(t) : ~IsFinite(t[i]) THEN "Vector t contiene NaN o Inf"
    ELSE IF \E i \in 1..Len(y) : ~IsFinite(y[i]) THEN "Vector y contiene NaN o Inf"
    ELSE IF yref = Zero THEN "yref debe ser distinto (yref != 0)"
    ELSE IF FLe(tolerance, Zero) \/ FGe(tolerance, Num(1)) THEN "tolerance debe estar en (0, 1)"
    ELSE "ok"

\* the returned dictionary with the overshoot clamped at zero
MetricsClampedOvershoot(t, y, yref, tolerance) ==
    LET y_max   == ArrayMax(y)
        y_final == y[Len(y)]
        ess     == FSub(yref, y_final)
        Mp      == FMul(FDiv(FSub(y_max, yref), FAbs(yref)), Num(100))
    IN  [ ts            |-> SettlingTime(t, y, yref, tolerance),
          Mp            |-> IF FLt(Mp, Zero) THEN Zero ELSE Mp,
          ess           |-> ess,
          ess_percent   |-> FMul(FDiv(ess, yref), Num(100)),
          y_max         |-> y_max,
          y_final       |-> y_final,
          settling_band |-> FMul(tolerance, FAbs(yref)) ]

\* lines 253-302: the returned dictionary
Metrics(t, y, yref, tolerance) ==
    LET y_max   == ArrayMax(y)
        y_final == y[Len(y)]
        ess     == FSub(yref, y_final)
    IN  [ ts            |-> SettlingTime(t, y, yref, tolerance),
          Mp            |-> FMul(FDiv(FSub(y_max, yref), FAbs(yref)), Num(100)),
          ess           |-> ess,
          ess_percent   |-> FMul(FDiv(ess, yref), Num(100)),
          y_max         |-> y_max,
          y_final       |-> y_final,
          settling_band |-> FMul(tolerance, FAbs(yref)) ]

calcular_metricas_respuesta(t, y, yref, tolerance) ==
    LET msg == MetricsCheck(t, y, yref, tolerance)
    IN  IF msg = "ok"
        THEN [kind |-> "return", msg |-> "", metrics |-> << Metrics(t, y, yref, tolerance) >>]
        ELSE [kind |-> "MetricaError", msg |-> msg, metrics |-> << >>]

-----------------------------------------------------------------------------
(* The tuning calls as a state machine: Init draws the arguments, one      *)
(* action per public function applies it.                                  *)

MaxK == 2
MaxL == 6
MaxT == 2

NonFinite == {PosInf, NaN}

KValues == {Num(i) : i \in -1..MaxK} \cup NonFinite
LValues == {Num(i) : i \in -1..MaxL} \cup NonFinite
TValues == {Num(-1), Zero} \cup {Num(5 * i) : i \in 1..MaxT} \cup NonFinite

ControlTypes == {"P", "PI", "PID", "PD"}
Criteria     == {"IAE", "ISE", "ITAE", "IE"}

NoCall == [fn |-> "none", kind |-> "none", gains |-> NoGains]
NoComparison == [kind |-> "none", result |-> << >>]

NoTuningArgs == [K |-> Zero, L |-> Zero, T |-> Zero, criterion |-> "IAE", control_type |-> "PID"]

\* no transfer-function call is in progress
NoTFArgs == [numerator |-> << >>, denominator |-> << >>, tolerance |-> <<0, 0>>]
NoTFCall == [created |-> "idle", tf |-> [num |-> << >>, den |-> << >>], msg |-> "",
             stable_called |-> FALSE, stable |-> FALSE, gain |-> [kind |-> "none", value |-> << >>]]

\* no metrics call is in progress
NoMetricsArgs == [t |-> << >>, y |-> << >>, yref |-> Zero, tolerance |-> Zero]
NoMetricsCall == [kind |-> "idle", msg |-> "", metrics |-> << >>]

\* a run without the Streamlit application
NoSession == [started |-> FALSE]
NoDesignerRun == [status |-> "idle"]

NoResultsRun == [status |-> "idle"]

NoHistory == [started |-> FALSE]

NoScenarioArgs == [given |-> FALSE]

NoScenarioCall == [kind |-> "idle", msg |-> "", results |-> << >>]

NoClosedArgs == [given |-> FALSE]

NoClosedCall == [kind |-> "idle", value |-> << >>]

\* a run that makes no simulation call
NoSimArgs == [tf |-> [num |-> << >>, den |-> << >>], t_final |-> Zero, num_points |-> 0,
              input_magnitude |-> Zero, legacy_pole_api |-> FALSE]
NoSimCall == [kind |-> "idle", msg |-> "", time |-> << >>, output |-> << >>]

InitTuning ==
    /\ targs \in [K : KValues, L : LValues, T : TValues,
                  criterion : Criteria, control_type : ControlTypes]
    /\ tret = NoCall
    /\ cmpret = NoComparison
    /\ stdout = << >>
    /\ tfargs = NoTFArgs
    /\ tfcall = NoTFCall
    /\ margs = NoMetricsArgs
    /\ mret = NoMetricsCall
    /\ simargs = NoSimArgs
    /\ simret = NoSimCall
    /\ scargs = NoScenarioArgs
    /\ scret = NoScenarioCall
    /\ session = NoSession
    /\ drun = NoDesignerRun
    /\ rrun = NoResultsRun
    /\ hist = NoHistory
    /\ clargs = NoClosedArgs
    /\ clret = NoClosedCall

CallZieglerNichols ==
    /\ tret.fn = "none" /\ cmpret.kind = "none"
    /\ LET r == sintonia_pid_ziegler_nichols(targs.K, targs.L, targs.T, targs.control_type)
       IN  /\ tret' = [fn |-> "ZN", kind |-> r.kind, gains |-> r.gains]
           /\ stdout' = stdout \o r.printed
    /\ UNCHANGED <<targs, cmpret, tf_vars, metrics_vars, sim_vars, closed_vars, scenario_vars, page_vars>>

CallCohenCoon ==
    /\ tret.fn = "none" /\ cmpret.kind = "none"
    /\ LET r == sintonia_pid_cohen_coon(targs.K, targs.L, targs.T,
                                        targs.criterion, targs.control_type)
       IN  /\ tret' = [fn |-> "CC", kind |-> r.kind, gains |-> r.gains]
           /\ stdout' = stdout \o r.printed
    /\ UNCHANGED <<targs, cmpret, tf_vars, metrics_vars, sim_vars, closed_vars, scenario_vars, page_vars>>

CallCompararZieglerVsCohenCoon ==
    /\ tret.fn = "none" /\ cmpret.kind = "none"
    /\ LET r == comparar_ziegler_vs_cohen_coon(targs.K, targs.L, targs.T)
       IN  /\ cmpret' = [kind |-> r.kind, result |-> r.result]
           /\ stdout' = stdout \o r.printed
    /\ UNCHANGED <<targs, tret, tf_vars, metrics_vars, sim_vars, closed_vars, scenario_vars, page_vars>>

NextTuning == CallZieglerNichols \/ CallCohenCoon \/ CallCompararZieglerVsCohenCoon

SpecTuning == InitTuning /\ [][NextTuning]_vars

-----------------------------------------------------------------------------
(* Properties of the tuning functions (checked under SpecTuning).          *)

\* a finite FOPDT model that satisfies K > 0, L >= 0, T > 0
FiniteModel == IsFinite(targs.K) /\ IsFinite(targs.L) /\ IsFinite(targs.T)
ValidModel  == FiniteModel /\ targs.K[1] > 0 /\ targs.L[1] >= 0 /\ targs.T[1] > 0

\* c * T = Kp * L * K, i.e. Kp = c * T / (L * K) without dividing
KpIs(c) == FMul(tret.gains[1], FMul(targs.L, targs.K)) = FMul(c, targs.T)

ZN_Expected ==
    \/ /\ targs.control_type = "P"
       /\ KpIs(Num(1)) /\ tret.gains[2] = PosInf /\ tret.gains[3] = Zero
    \/ /\ targs.control_type = "PI"
       /\ KpIs(<<9, 10>>)
       /\ tret.gains[2] = FMul(<<333, 100>>, targs.L) /\ tret.gains[3] = Zero
    \/ /\ targs.control_type = "PID"
       /\ KpIs(<<6, 5>>)
       /\ tret.gains[2] = FMul(Num(2), targs.L)
       /\ FMul(Num(2), tret.gains[3]) = targs.L

\* C1: for every FOPDT model that passes validation, sintonia_pid_ziegler_nichols
\* returns (T/(L*K), inf, 0) for P, (0.9*T/(L*K), 3.33*L, 0) for PI and
\* (1.2*T/(L*K), 2*L, 0.5*L) for PID.
C1_ZN_ReturnsFormulaGains ==
    (tret.fn = "ZN" /\ ValidModel /\ targs.control_type \in {"P", "PI", "PID"})
        => (tret.kind = "return" /\ ZN_Expected)

\* C1, where the code does return: the returned gains are the formula's gains
C1_ZN_FormulaGainsWhenReturned ==
    (tret.fn = "ZN" /\ ValidModel /\ tret.kind = "return") => ZN_Expected

\* C1, the literal case K=1, L=2, T=10, PID -> (6, 4, 1)
C1_ZN_LiteralCase ==
    (tret.fn = "ZN" /\ targs.K = Num(1) /\ targs.L = Num(2) /\ targs.T = Num(10)
        /\ targs.control_type = "PID")
        => (tret.kind = "return" /\ tret.gains = << Num(6), Num(4), Num(1) >>)

\* the Cohen-Coon PID gains, stated without division (n/d stand for K, L, T)
CC_ExpectedPID ==
    LET L == targs.L
        T == targs.T
        g == tret.gains
        L10 == FMul(Num(10), L)
        T3  == FMul(Num(3), T)
    IN  \/ /\ targs.criterion = "IAE" /\ FLt(L10, T3)              \* r < 0.3
           /\ KpIs(<<135, 100>>)
           /\ FMul(Num(2), g[2]) = FMul(Num(5), L)
           /\ FMul(Num(100), g[3]) = FMul(Num(37), L)
        \/ /\ targs.criterion = "IAE" /\ FGe(L10, T3)              \* r >= 0.3
           \* Kp = (T/(L K)) (16 T + 3 L) / (12 T)
           /\ FMul(Num(12), FMul(g[1], FMul(L, targs.K)))
                = FAdd(FMul(Num(16), T), FMul(Num(3), L))
           \* Ti = L (32 T + 6 L) / (13 T + 8 L)
           /\ FMul(g[2], FAdd(FMul(Num(13), T), FMul(Num(8), L)))
                = FMul(L, FAdd(FMul(Num(32), T), FMul(Num(6), L)))
           \* Td = 4 L T / (11 T + 2 L)
           /\ FMul(g[3], FAdd(FMul(Num(11), T), FMul(Num(2), L)))
                = FMul(Num(4), FMul(L, T))
        \/ /\ targs.criterion = "ISE"
           /\ KpIs(<<1495, 1000>>)
           /\ FMul(Num(100), g[2]) = FMul(Num(157), L)
           /\ FMul(Num(1000), g[3]) = FMul(Num(735), L)
        \/ /\ targs.criterion = "ITAE"
           /\ KpIs(<<859, 1000>>)
           /\ FMul(Num(1000), g[2]) = FMul(Num(674), L)
           /\ FMul(Num(1000), g[3]) = FMul(Num(134), L)

\* C2: for every valid FOPDT model and control type PID, sintonia_pid_cohen_coon
\* returns the gains of the criterion's formula (IAE split at r = L/T = 0.3,
\* r = 0.3 itself on the general side; ISE and ITAE whatever r is).
C2_CC_ReturnsFormulaGains ==
    (tret.fn = "CC" /\ ValidModel /\ targs.control_type = "PID"
        /\ targs.criterion \in {"IAE", "ISE", "ITAE"})
        => (tret.kind = "return" /\ CC_ExpectedPID)

\* C2, where the code does return: the returned gains are the formula's gains
C2_CC_FormulaGainsWhenReturned ==
    (tret.fn = "CC" /\ ValidModel /\ targs.control_type = "PID" /\ tret.kind = "return")
        => CC_ExpectedPID

\* C3: every call of either tuning function ends in returned gains or in a
\* TuningError, never in another kind of failure (L = 0 included).
C3_OnlyTuningError ==
    tret.fn # "none" => tret.kind \in {"return", "TuningError"}

C5_ReturnedGainsInRange ==
    tret.kind = "return"
        => /\ FGt(tret.gains[1], Zero)
           /\ FGt(tret.gains[2], Zero)
           /\ FGe(tret.gains[3], Zero)

\* C5 restricted to finite models: the returned gains are in range
C5_ReturnedGainsInRangeFiniteModel ==
    (tret.kind = "return" /\ FiniteModel)
        => /\ FGt(tret.gains[1], Zero)
           /\ FGt(tret.gains[2], Zero)
           /\ FGe(tret.gains[3], Zero)

\* C6: for every valid model and criterion, sintonia_pid_cohen_coon with PI
\* returns Td = 0 and the Kp and Ti it returns with PID.
C6_CC_PIReturnsPIDWithoutDerivative ==
    (tret.fn = "CC" /\ ValidModel /\ targs.control_type = "PI"
        /\ targs.criterion \in {"IAE", "ISE", "ITAE"})
        => LET pid == sintonia_pid_cohen_coon(targs.K, targs.L, targs.T,
                                              targs.criterion, "PID")
           IN  /\ tret.kind = "return" /\ pid.kind = "return"
               /\ tret.gains[3] = Zero
               /\ tret.gains[1] = pid.gains[1]
               /\ tret.gains[2] = pid.gains[2]

\* C6, where the code does return
C6_CC_PIMatchesPIDWhenReturned ==
    (tret.fn = "CC" /\ ValidModel /\ targs.control_type = "PI" /\ tret.kind = "return")
        => LET pid == sintonia_pid_cohen_coon(targs.K, targs.L, targs.T,
                                              targs.criterion, "PID")
           IN  /\ pid.kind = "return"
               /\ pid.gains[3] # Zero
               /\ tret.gains = << pid.gains[1], pid.gains[2], Zero >>

C17_ComparisonHoldsBothPIDGains ==
    cmpret.kind = "return" =>
        LET res == cmpret.result[1]
            zn  == sintonia_pid_ziegler_nichols(targs.K, targs.L, targs.T, "PID")
            cc  == sintonia_pid_cohen_coon(targs.K, targs.L, targs.T, "IAE", "PID")
        IN  /\ {"ZN", "CC"} \subseteq DOMAIN res
            /\ zn.kind = "return" /\ cc.kind = "return"
            /\ << res.ZN.Kp, res.ZN.Ti, res.ZN.Td >> = zn.gains
            /\ << res.CC.Kp, res.CC.Ti, res.CC.Td >> = cc.gains

\* K = 1, L = 1, T = 5 (L/T = 0.2 < 0.3): Ziegler-Nichols gives (6, 2, 0.5),
\* Cohen-Coon with IAE gives (6.75, 2.5, 0.37)
C17_Witness ==
    /\ cmpret.kind = "return"
    /\ targs.K = Num(1) /\ targs.L = Num(1) /\ targs.T = Num(5)
    /\ cmpret.result[1].ZN = [Kp |-> Num(6), Ti |-> Num(2), Td |-> <<1, 2>>]
    /\ cmpret.result[1].CC = [Kp |-> <<27, 4>>, Ti |-> <<5, 2>>, Td |-> <<37, 100>>]

-----------------------------------------------------------------------------
(* Transfer functions: src/src/core/transfer_function.py                   *)
(* A coefficient list is a sequence of floats <<n, d>>; NonNumeric stands  *)
(* for a list element np.asarray(..., dtype=float) cannot convert.  A      *)
(* coefficient too small for <<n, d>> is written <<n, d, k>>, the value    *)
(* (n/d) * 10^(-k).                                                        *)

Sci(n, k) == <<n, 1, k>>

\* the decimal exponent k and the mantissa n/d of a finite coefficient
Exp10(c) == IF Len(c) = 3 THEN c[3] ELSE 0
Mant(c)  == <<c[1], c[2]>>

\* floor(v / 10^e), v >= 0
RECURSIVE FloorDivPow10(_, _)
FloorDivPow10(v, e) == IF e = 0 THEN v ELSE FloorDivPow10(v \div 10, e - 1)

\* 10^e
RECURSIVE Pow10(_)
Pow10(e) == IF e = 0 THEN 1 ELSE 10 * Pow10(e - 1)

\* |c| <= 10^(-j) for a finite coefficient c, without overflow
AbsAtMostPow10(c, j) ==
    LET n == Abs(c[1])
        d == c[2]
        k == Exp10(c)
    IN  IF j >= k THEN n = 0 \/ n <= FloorDivPow10(d, j - k)
        ELSE n <= d * Pow10(k - j)

\* |c| < 10^(-j) for a finite coefficient c, without overflow
AbsBelowPow10(c, j) ==
    LET n == Abs(c[1])
        d == c[2]
        k == Exp10(c)
    IN  IF j >= k THEN n = 0 \/ n <= FloorDivPow10(d - 1, j - k)
        ELSE n < d * Pow10(k - j)

NonNumeric == <<0, 0, 1>>

Range(seq) == {seq[i] : i \in 1..Len(seq)}

\* lines 61-68: np.asarray(x, dtype=float) raises TypeError/ValueError on an
\* element that is no number
AsArrayRaises(x) == NonNumeric \in Range(x)

\* line 78: np.allclose(den_array, 0) with numpy's defaults rtol=1e-5, atol=1e-8:
\* every element satisfies |c - 0| <= atol + rtol * |0| (never true of nan, inf)
AllCloseToZero(arr) ==
    \A i \in 1..Len(arr) : IsFinite(arr[i]) /\ AbsAtMostPow10(arr[i], 8)

\* lines 61-94: the message of the error raised, or "ok".  After these checks
\* ct.TransferFunction(num, den) (lines 89-92) accepts the arrays.
CreateCheck(numerator, denominator) ==
    IF AsArrayRaises(numerator) \/ AsArrayRaises(denominator)
    THEN "Los coeficientes deben ser numericos (int o float)"
    ELSE IF Len(numerator) = 0 THEN "Numerador no puede estar vacio"
    ELSE IF Len(denominator) = 0 THEN "Denominador no puede estar vacio"
    ELSE IF AllCloseToZero(denominator) THEN "Denominador no puede ser todo ceros"
    ELSE IF (\E c \in Range(numerator) : IsNaN(c)) \/ (\E c \in Range(denominator) : IsNaN(c))
    THEN "Los coeficientes contienen NaN"
    ELSE IF (\E c \in Range(numerator) : IsInf(c)) \/ (\E c \in Range(denominator) : IsInf(c))
    THEN "Los coeficientes contienen Inf"
    ELSE "ok"

NoTF == [num |-> << >>, den |-> << >>]

create_transfer_function(numerator, denominator) ==
    LET msg == CreateCheck(numerator, denominator)
    IN  IF msg = "ok"
        THEN [kind |-> "return", tf |-> [num |-> numerator, den |-> denominator], msg |-> ""]
        ELSE [kind |-> "InvalidTransferFunctionError", tf |-> NoTF, msg |-> msg]

-----------------------------------------------------------------------------
(* Poles: tf.poles() are the roots of the denominator polynomial.  The     *)
(* roots are computed exactly for polynomials that split into rational     *)
(* linear factors and at most one irreducible quadratic factor.            *)

RECURSIVE Pow(_, _)
Pow(b, e) == IF e = 0 THEN 1 ELSE b * Pow(b, e - 1)

LCM(a, b) == (a \div GCD(a, b)) * b

RECURSIVE LCMDen(_)
LCMDen(arr) == IF Len(arr) = 0 THEN 1 ELSE LCM(arr[1][2], LCMDen(Tail(arr)))

\* the integer polynomial with the same roots (denominators cleared)
IntPoly(arr) ==
    LET m == LCMDen(arr)
    IN  [i \in 1..Len(arr) |-> arr[i][1] * (m \div arr[i][2])]

RECURSIVE TrimLeading(_)
TrimLeading(p) ==
    IF Len(p) > 0 /\ p[1] = 0 THEN TrimLeading(Tail(p)) ELSE p

Divisors(n) == {k \in 1..Abs(n) : Abs(n) % k = 0}

\* y^deg * p(x/y) for the integer polynomial p (descending powers)
RECURSIVE EvalAt(_, _, _, _)
EvalAt(p, x, y, i) ==
    IF i = 0 THEN 0
    ELSE EvalAt(p, x, y, i - 1) * x + p[i] * Pow(y, i - 1)

\* the rational roots x/y (in lowest terms, y > 0) of p, p[1] # 0, p[Len(p)] # 0
RationalRoots(p) ==
    {r \in {<<sg * x, y>> : sg \in {-1, 1}, x \in Divisors(p[Len(p)]), y \in Divisors(p[1])} :
        GCD(Abs(r[1]), r[2]) = 1 /\ EvalAt(p, r[1], r[2], Len(p)) = 0}

\* the quotient p / (y*s - x) for a root x/y of p
RECURSIVE DeflateTo(_, _, _, _)
DeflateTo(p, x, y, i) ==
    IF i = 0 THEN << >>
    ELSE LET q == DeflateTo(p, x, y, i - 1)
         IN  Append(q, (p[i] + x * (IF i = 1 THEN 0 ELSE q[i - 1])) \div y)

Deflate(p, r) == DeflateTo(p, r[1], r[2], Len(p) - 1)

NoRoots == [ok |-> TRUE, poles |-> << >>]

\* the roots of the integer polynomial p as complex numbers [re, real]
RECURSIVE Roots(_)
Roots(p0) ==
    LET p == TrimLeading(p0)
    IN  IF Len(p) <= 1 THEN NoRoots
        ELSE IF p[Len(p)] = 0
        THEN LET rest == Roots(SubSeq(p, 1, Len(p) - 1))
             IN  [ok |-> rest.ok, poles |-> <<[re |-> Zero, real |-> TRUE]>> \o rest.poles]
        ELSE IF RationalRoots(p) # {}
        THEN LET r    == CHOOSE q \in RationalRoots(p) : TRUE
                 rest == Roots(Deflate(p, r))
             IN  [ok |-> rest.ok, poles |-> <<[re |-> r, real |-> TRUE]>> \o rest.poles]
        ELSE IF Len(p) = 3 /\ p[2] * p[2] - 4 * p[1] * p[3] < 0
        THEN LET re == Norm(-p[2], 2 * p[1])
             IN  [ok |-> TRUE, poles |-> << [re |-> re, real |-> FALSE],
                                           [re |-> re, real |-> FALSE] >>]
        ELSE [ok |-> FALSE, poles |-> << >>]

\* denominators whose roots this module computes
HasComputableRoots(den) == Roots(IntPoly(den)).ok

\* re < -tol for a finite re = n/d and a tolerance tol = <<m, e>> = m * 10^(-e), m >= 0
LtNegTol(re, tol) ==
    re[1] < 0 /\ -re[1] > FloorDivPow10(tol[1] * re[2], tol[2])

RECURSIVE DivisibleByPow10(_, _)
DivisibleByPow10(v, e) ==
    e = 0 \/ (v % 10 = 0 /\ DivisibleByPow10(v \div 10, e - 1))

\* re <= -tol
LeNegTol(re, tol) ==
    /\ re[1] <= 0
    /\ -re[1] >= FloorDivPow10(tol[1] * re[2], tol[2])
                  + (IF DivisibleByPow10(tol[1] * re[2], tol[2]) THEN 0 ELSE 1)

\* line 140: the default tolerance 1e-10 of is_stable, as <<m, e>> = m * 10^(-e)
DefaultTolerance == <<1, 10>>

\* lines 97-116
get_poles(tf) == Roots(IntPoly(tf.den)).poles

\* np.all(np.real(poles) <= -tolerance): the comparison made non-strict
is_stable_nonstrict(tf, tolerance) ==
    \A i \in 1..Len(get_poles(tf)) : LeNegTol(get_poles(tf)[i].re, tolerance)

\* lines 140-170: np.all(np.real(poles) < -tolerance)
is_stable(tf, tolerance) ==
    \A i \in 1..Len(get_poles(tf)) : LtNegTol(get_poles(tf)[i].re, tolerance)

-----------------------------------------------------------------------------
(* DC gain: get_dc_gain, lines 173-208                                     *)

NoGain == [kind |-> "none", value |-> << >>]

\* lines 202-203: np.polyval(p, 0) by Horner's rule, y = y * 0 + p[i] for each
\* coefficient in turn: for finite coefficients every y * 0 is 0 and the
\* result is the last coefficient
PolyvalAtZero(p) == p[Len(p)]

\* line 208: num_at_0 / den_at_0 for a divisor that is not zero
GainQuotient(a, b) ==
    LET q == FDiv(Mant(a), Mant(b))
        k == Exp10(a) - Exp10(b)
    IN  IF k = 0 \/ q = Zero THEN q ELSE <<q[1], q[2], k>>

\* the gain without the check of lines 205-206: the float division raises
\* ZeroDivisionError on a zero divisor and returns a value otherwise
get_dc_gain_unchecked(tf) ==
    LET num_at_0 == PolyvalAtZero(tf.num)
        den_at_0 == PolyvalAtZero(tf.den)
    IN  IF den_at_0[1] = 0
        THEN [kind |-> "ZeroDivisionError", value |-> << >>]
        ELSE [kind |-> "return", value |-> << GainQuotient(num_at_0, den_at_0) >>]

\* lines 173-208
get_dc_gain(tf) ==
    LET num_at_0 == PolyvalAtZero(tf.num)
        den_at_0 == PolyvalAtZero(tf.den)
    IN  IF AbsBelowPow10(den_at_0, 15)
        THEN [kind |-> "ValueError", value |-> << >>]
        ELSE [kind |-> "return", value |-> << GainQuotient(num_at_0, den_at_0) >>]

-----------------------------------------------------------------------------
(* Open-loop simulation: src/src/simulation/open_loop.py                   *)
(* An optional argument is << >> for None and <<v>> for the value v.       *)

None == << >>
Some(v) == <<v>>

\* line 135: max_time of _estimate_settling_time
MaxTime == 1000

\* line 153: the estimate for a system without poles
DefaultSettlingTime == 10

\* line 102: the minimum number of points
MinPoints == 10

\* line 115: np.linspace(0, t_final, num_points), num_points >= 2
Linspace0(t_final, num_points) ==
    [i \in 1..num_points |-> FDiv(FMul(Num(i - 1), t_final), Num(num_points - 1))]

\* lines 133-168 once tf.pole() has returned the poles
EstimateFromPoles(poles) ==
    IF Len(poles) = 0 THEN Num(DefaultSettlingTime)
    ELSE LET real_parts   == [i \in 1..Len(poles) |-> poles[i].re]
             slowest_pole == ArrayMax(real_parts)
         IN  IF FGe(slowest_pole, Zero) THEN Num(MaxTime)
             ELSE LET ts_estimate == FDiv(Num(-5), slowest_pole)
                  IN  IF FLt(ts_estimate, Num(MaxTime)) THEN ts_estimate ELSE Num(MaxTime)

\* lines 133-168.  Line 150 reads the poles with tf.pole(), the name
\* python-control gave the method before it became tf.poles() (the name
\* line 116 of transfer_function.py uses); a release without the old name
\* raises AttributeError there.
estimate_settling_time(tf, legacy_pole_api) ==
    IF legacy_pole_api
    THEN [kind |-> "return", value |-> EstimateFromPoles(get_poles(tf))]
    ELSE [kind |-> "AttributeError", value |-> Zero]

\* the degree of a coefficient list (descending powers): -1 for the zero
\* polynomial
Degree(coefs) == Len(TrimLeading([i \in 1..Len(coefs) |-> coefs[i][1]])) - 1

\* lines 117-128: ct.step_response(tf, T=time) cannot simulate a transfer
\* function whose numerator has a higher degree than its denominator; the
\* exception is turned into SimulationError
StepResponseRaises(tf) == Degree(tf.num) > Degree(tf.den)

\* line 120-123: the computed samples are not evaluated here, the output is
\* kept as the description of what was computed
StepResponse(tf, time, input_magnitude) ==
    [response_of |-> tf, T |-> time, scaled_by |-> input_magnitude]

SimError(kind, msg) == [kind |-> kind, msg |-> msg, time |-> << >>, output |-> << >>]

\* lines 114-130, with the final time settled
SimulateUpTo(tf, t_final, num_points, input_magnitude) ==
    LET time == Linspace0(t_final, num_points)
    IN  IF StepResponseRaises(tf)
        THEN SimError("SimulationError", "Error durante la simulacion de respuesta al escalon")
        ELSE [kind |-> "return", msg |-> "", time |-> time,
              output |-> <<StepResponse(tf, time, input_magnitude)>>]

\* the simulation without the stability check of lines 95-99
simulate_without_stability_check(tf, t_final, num_points, input_magnitude, legacy_pole_api) ==
    IF tf = None
    THEN SimError("SimulationError", "Funcion de transferencia no puede ser None")
    ELSE IF num_points < MinPoints
    THEN SimError("SimulationError", "num_points debe ser >= 10")
    ELSE IF FLe(input_magnitude, Zero)
    THEN SimError("SimulationError", "input_magnitude debe ser positivo")
    ELSE IF t_final = None
    THEN LET est == estimate_settling_time(tf[1], legacy_pole_api)
         IN  IF est.kind = "return"
             THEN SimulateUpTo(tf[1], est.value, num_points, input_magnitude)
             ELSE SimError(est.kind, "")
    ELSE IF FLe(t_final[1], Zero)
    THEN SimError("SimulationError", "t_final debe ser positivo")
    ELSE SimulateUpTo(tf[1], t_final[1], num_points, input_magnitude)

\* lines 18-130
simulate_step_response(tf, t_final, num_points, input_magnitude, legacy_pole_api) ==
    IF tf = None
    THEN SimError("SimulationError", "Funcion de transferencia no puede ser None")
    ELSE IF ~is_stable(tf[1], DefaultTolerance)
    THEN SimError("SimulationError", "No se puede simular un sistema inestable")
    ELSE IF num_points < MinPoints
    THEN SimError("SimulationError", "num_points debe ser >= 10")
    ELSE IF FLe(input_magnitude, Zero)
    THEN SimError("SimulationError", "input_magnitude debe ser positivo")
    ELSE IF t_final = None
    THEN LET est == estimate_settling_time(tf[1], legacy_pole_api)
         IN  IF est.kind = "return"
             THEN SimulateUpTo(tf[1], est.value, num_points, input_magnitude)
             ELSE SimError(est.kind, "")
    ELSE IF FLe(t_final[1], Zero)
    THEN SimError("SimulationError", "t_final debe ser positivo")
    ELSE SimulateUpTo(tf[1], t_final[1], num_points, input_magnitude)

-----------------------------------------------------------------------------
(* The transfer-function calls as a state machine: Init draws the          *)
(* coefficient lists and the tolerance, create_transfer_function builds    *)
(* the object and is_stable queries it.                                    *)

MaxCoef   == 2
MaxDenLen == 3

IntCoefSeqs == UNION {[1..n -> -MaxCoef..MaxCoef] : n \in 0..MaxDenLen}

\* integer coefficient lists at unit scale and at the scales 1e-8 and 1e-9
Scales == {<<1, 1>>, <<1, 100000000>>, <<1, 1000000000>>}

ScaledSeqs == {[i \in 1..Len(p) |-> FMul(sc, Num(p[i]))] : p \in IntCoefSeqs, sc \in Scales}

MalformedSeqs ==
    { <<NaN>>, <<Num(1), NaN>>, <<PosInf, Num(1)>>, <<Zero, PosInf>>,
      <<Num(1), NonNumeric>>, <<NonNumeric>> }

Denominators == {p \in ScaledSeqs : HasComputableRoots(p)} \cup MalformedSeqs

Numerators == { << >>, <<Num(1)>>, <<Num(2)>>, <<Num(1), Num(2)>>,
                <<NaN>>, <<PosInf>>, <<NonNumeric>> }

\* tolerances <<m, e>> = m * 10^(-e): the default 1e-10 (line 140) and 1
Tolerances == {DefaultTolerance, <<1, 0>>}

InitTF ==
    /\ tfargs \in [numerator : Numerators, denominator : Denominators, tolerance : Tolerances]
    /\ tfcall = [created |-> "no", tf |-> NoTF, msg |-> "",
                 stable_called |-> FALSE, stable |-> FALSE, gain |-> NoGain]
    /\ targs = NoTuningArgs
    /\ tret = NoCall
    /\ cmpret = NoComparison
    /\ stdout = << >>
    /\ margs = NoMetricsArgs
    /\ mret = NoMetricsCall
    /\ simargs = NoSimArgs
    /\ simret = NoSimCall
    /\ scargs = NoScenarioArgs
    /\ scret = NoScenarioCall
    /\ session = NoSession
    /\ drun = NoDesignerRun
    /\ rrun = NoResultsRun
    /\ hist = NoHistory
    /\ clargs = NoClosedArgs
    /\ clret = NoClosedCall

CallCreateTransferFunction ==
    /\ tfcall.created = "no"
    /\ LET r == create_transfer_function(tfargs.numerator, tfargs.denominator)
       IN  tfcall' = [tfcall EXCEPT !.created = r.kind, !.tf = r.tf, !.msg = r.msg]
    /\ UNCHANGED <<tfargs, tuning_vars, metrics_vars, sim_vars, closed_vars, scenario_vars, page_vars>>

CallIsStable ==
    /\ tfcall.created = "return"
    /\ ~tfcall.stable_called
    /\ tfcall' = [tfcall EXCEPT !.stable_called = TRUE,
                                !.stable = is_stable(tfcall.tf, tfargs.tolerance)]
    /\ UNCHANGED <<tfargs, tuning_vars, metrics_vars, sim_vars, closed_vars, scenario_vars, page_vars>>

NextTF == CallCreateTransferFunction \/ CallIsStable

SpecTF == InitTF /\ [][NextTF]_vars

-----------------------------------------------------------------------------
(* Properties of the transfer-function operations (checked under SpecTF).  *)

Created  == tfcall.created # "no" /\ tfcall.created # "idle"
Rejected == tfcall.created = "InvalidTransferFunctionError" /\ tfcall.tf = NoTF

IsNumber(c)    == c # NonNumeric
IsFiniteNum(c) == IsNumber(c) /\ c[2] > 0

\* |c| <= 1e-12 for a finite c = n/d: |n| * 10^12 <= d
Within1em12(c) == Abs(c[1]) <= (c[2] \div 1000000) \div 1000000

\* C8: create_transfer_function fails with InvalidTransferFunctionError when the
\* numerator or the denominator is empty, when every denominator coefficient is
\* zero within 1e-12, or when a coefficient is NaN, infinite or non-numeric; a
\* finite non-empty input whose denominator has a coefficient of magnitude above
\* 1e-12 is not rejected as all-zero.
C8_CreateRejectsExactlyMalformed ==
    LET num == tfargs.numerator
        den == tfargs.denominator
        allNumbers == \A c \in Range(num) \cup Range(den) : IsFiniteNum(c)
    IN  Created =>
          /\ (Len(num) = 0 \/ Len(den) = 0) => Rejected
          /\ (\E c \in Range(num) \cup Range(den) : ~IsFiniteNum(c)) => Rejected
          /\ (allNumbers /\ \A c \in Range(den) : Within1em12(c)) => Rejected
          /\ (allNumbers /\ Len(num) > 0 /\ Len(den) > 0
                /\ \E c \in Range(den) : ~Within1em12(c))
               => tfcall.msg # "Denominador no puede ser todo ceros"

\* C8, the part the code satisfies: every malformed input named by the claim is
\* rejected with InvalidTransferFunctionError and no transfer function
C8_CreateRejectsMalformed ==
    LET num == tfargs.numerator
        den == tfargs.denominator
        allNumbers == \A c \in Range(num) \cup Range(den) : IsFiniteNum(c)
    IN  Created =>
          /\ (Len(num) = 0 \/ Len(den) = 0) => Rejected
          /\ (\E c \in Range(num) \cup Range(den) : ~IsFiniteNum(c)) => Rejected
          /\ (allNumbers /\ \A c \in Range(den) : Within1em12(c)) => Rejected

\* the coefficient list  a * (s - r1) * ... * (s - rk)  of given integer roots
RECURSIVE PolyFromRoots(_, _)
PolyFromRoots(a, roots) ==
    IF Len(roots) = 0 THEN <<a>>
    ELSE LET q == PolyFromRoots(a, Tail(roots))
             r == Head(roots)
         IN  [i \in 1..Len(q) + 1 |->
                (IF i <= Len(q) THEN q[i] ELSE 0) - r * (IF i = 1 THEN 0 ELSE q[i - 1])]

\* the coefficient list  a * ((s - sigma)^2 + omega^2)
PolyFromComplexPair(a, sigma, omega) ==
    << a, -2 * a * sigma, a * (sigma * sigma + omega * omega) >>

AsFloats(p) == [i \in 1..Len(p) |-> Num(p[i])]

KnownRoots == -2..2

KnownRootLists == UNION {[1..n -> KnownRoots] : n \in 0..2}

\* C9: is_stable(tf, tolerance) is true iff every pole of tf has real part
\* strictly below -tolerance; the poles are known because the denominator is
\* the product of its factors.  1/(s+1) is stable, 1/(s-1) and 1/s are not.
C9_StableIffPolesLeftOfTolerance ==
    tfcall.stable_called =>
        /\ \A a \in {-1, 1, 2} : \A rs \in KnownRootLists :
              tfcall.tf.den = AsFloats(PolyFromRoots(a, rs))
                => (tfcall.stable
                      <=> \A i \in 1..Len(rs) : LtNegTol(Num(rs[i]), tfargs.tolerance))
        /\ \A a \in {-1, 1} : \A sigma \in -1..1 :
              tfcall.tf.den = AsFloats(PolyFromComplexPair(a, sigma, 1))
                => (tfcall.stable <=> LtNegTol(Num(sigma), tfargs.tolerance))
        /\ (tfargs.tolerance = DefaultTolerance /\ tfcall.tf.den = <<Num(1), Num(1)>>)
              => tfcall.stable
        /\ (tfargs.tolerance = DefaultTolerance /\ tfcall.tf.den = <<Num(1), Num(-1)>>)
              => ~tfcall.stable
        /\ (tfargs.tolerance = DefaultTolerance /\ tfcall.tf.den = <<Num(1), Zero>>)
              => ~tfcall.stable

\* 1/(s+1) with the default tolerance: stable
C9_Witness ==
    /\ tfcall.stable_called /\ tfcall.stable
    /\ tfargs.tolerance = DefaultTolerance
    /\ tfcall.tf = [num |-> <<Num(1)>>, den |-> <<Num(1), Num(1)>>]

\* a double pole at -1 with tolerance 1: -1 < -1 is false, not stable
C9_WitnessOnTheTolerance ==
    /\ tfcall.stable_called /\ ~tfcall.stable
    /\ tfargs.tolerance = <<1, 0>>
    /\ tfcall.tf.den = <<Num(1), Num(2), Num(1)>>

-----------------------------------------------------------------------------
(* The metrics call as a state machine: Init draws the trace, the          *)
(* reference and the tolerance; the action applies the function.           *)

MaxExtraSamples == 1

TraceLengths == (MinSamples - 1)..(MinSamples + MaxExtraSamples)

\* the outputs take two levels
YLevels == {Num(-2), Num(1)}

\* the sampling instants 0, 1, 2, ...
Linspace(n) == [i \in 1..n |-> Num(i - 1)]

Defects == {"none", "t_not_increasing", "t_nan", "y_nan", "y_inf", "t_longer"}

TimeOf(n, defect) ==
    IF defect = "t_not_increasing" THEN [Linspace(n) EXCEPT ![n] = Num(n - 3)]
    ELSE IF defect = "t_nan" THEN [Linspace(n) EXCEPT ![2] = NaN]
    ELSE IF defect = "t_longer" THEN Linspace(n + 1)
    ELSE Linspace(n)

OutputOf(y, defect) ==
    IF defect = "y_nan" THEN [y EXCEPT ![Len(y)] = NaN]
    ELSE IF defect = "y_inf" THEN [y EXCEPT ![1] = PosInf]
    ELSE y

References == {Num(-1), Zero, Num(1), Num(2)}
\* nan is a float a caller can pass: it fails every comparison of line 243
ToleranceArgs == {Zero, <<1, 50>>, <<1, 2>>, Num(1), NaN}

\* line 23: the value the parameter tolerance takes when the caller passes none
MetricsDefaultTolerance == <<1, 50>>

\* what the caller passes for tolerance: a value, or nothing
TolerancePassed == {Some(tol) : tol \in ToleranceArgs} \cup {None}

\* lines 19-24: the parameter as the body of the function sees it
BindTolerance(passed) == IF passed = None THEN MetricsDefaultTolerance ELSE passed[1]

InitMetrics ==
    /\ \E n \in TraceLengths : \E y \in [1..n -> YLevels] : \E defect \in Defects :
       \E yref \in References : \E passed \in TolerancePassed :
          margs = [t |-> TimeOf(n, defect), y |-> OutputOf(y, defect),
                   yref |-> yref, tolerance |-> BindTolerance(passed),
                   tolerance_given |-> passed # None]
    /\ mret = [kind |-> "none", msg |-> "", metrics |-> << >>]
    /\ targs = NoTuningArgs
    /\ tret = NoCall
    /\ cmpret = NoComparison
    /\ stdout = << >>
    /\ tfargs = NoTFArgs
    /\ tfcall = NoTFCall
    /\ simargs = NoSimArgs
    /\ simret = NoSimCall
    /\ scargs = NoScenarioArgs
    /\ scret = NoScenarioCall
    /\ session = NoSession
    /\ drun = NoDesignerRun
    /\ rrun = NoResultsRun
    /\ hist = NoHistory
    /\ clargs = NoClosedArgs
    /\ clret = NoClosedCall

CallCalcularMetricas ==
    /\ mret.kind = "none"
    /\ LET r == calcular_metricas_respuesta(margs.t, margs.y, margs.yref, margs.tolerance)
       IN  mret' = [kind |-> r.kind, msg |-> r.msg, metrics |-> r.metrics]
    /\ UNCHANGED <<margs, tuning_vars, tf_vars, sim_vars, closed_vars, scenario_vars, page_vars>>

NextMetrics == CallCalcularMetricas

SpecMetrics == InitMetrics /\ [][NextMetrics]_vars

-----------------------------------------------------------------------------
(* Properties of the metrics computation (checked under SpecMetrics).      *)

\* sample i lies outside the settling band: |y[i] - yref| > tolerance * |yref|
Exceeds(i) ==
    FGt(FAbs(FSub(margs.y[i], margs.yref)), FMul(margs.tolerance, FAbs(margs.yref)))

StrictlyIncreasing(t) == \A i \in 1..(Len(t) - 1) : FLt(t[i], t[i + 1])

\* the tolerance lies strictly between 0 and 1
ToleranceInRange == FGt(margs.tolerance, Zero) /\ FLt(margs.tolerance, Num(1))

LengthMismatch == Len(margs.t) # Len(margs.y)
TooFewSamples  == Len(margs.t) < 10
NonFiniteTime  == \E i \in 1..Len(margs.t) : ~IsFinite(margs.t[i])
NonFiniteOut   == \E i \in 1..Len(margs.y) : ~IsFinite(margs.y[i])
ZeroReference  == margs.yref = Zero

MetricsRejected == mret.kind = "MetricaError" /\ mret.metrics = << >>

\* the one error reported is that of the first failing check, in the order
\* samples, lengths, time, output, reference, tolerance
FirstFailure ==
    IF TooFewSamples THEN "Vector t debe tener al menos 10 muestras"
    ELSE IF LengthMismatch THEN "Vectores t y y deben tener mismo tamano"
    ELSE IF NonFiniteTime THEN "Vector t contiene NaN o Inf"
    ELSE IF NonFiniteOut THEN "Vector y contiene NaN o Inf"
    ELSE IF ZeroReference THEN "yref debe ser distinto (yref != 0)"
    ELSE "tolerance debe estar en (0, 1)"

\* C11: calcular_metricas_respuesta fails with MetricaError and returns no
\* metrics when time and output differ in length, when fewer than 10 samples
\* are given, when time or output holds a non-finite value, when the reference
\* is 0, or when the tolerance is not strictly between 0 and 1; it reports
\* exactly one error (that of the first failing check).
C11_RejectsInvalidTrace ==
    (mret.kind # "none" /\
       (LengthMismatch \/ TooFewSamples \/ NonFiniteTime \/ NonFiniteOut
          \/ ZeroReference \/ ~ToleranceInRange))
    => (MetricsRejected /\ mret.msg = FirstFailure)

\* C11, for a tolerance that is a number (not nan): every invalid call is
\* rejected with the error of the first failing check, and every other call
\* returns metrics.
C11_RejectsInvalidTraceNumericTolerance ==
    (mret.kind # "none" /\ ~IsNaN(margs.tolerance)) =>
       IF LengthMismatch \/ TooFewSamples \/ NonFiniteTime \/ NonFiniteOut
            \/ ZeroReference \/ ~ToleranceInRange
       THEN MetricsRejected /\ mret.msg = FirstFailure
       ELSE mret.kind = "return" /\ mret.msg = "" /\ Len(mret.metrics) = 1

\* the largest output sample of a trace of finite numbers
MaxOutput == CHOOSE v \in Range(margs.y) : \A w \in Range(margs.y) : FLe(w, v)

C12_WitnessPositiveReference ==
    /\ mret.kind = "return" /\ ToleranceInRange
    /\ margs.yref = Num(2)
    /\ MaxOutput = Num(1)
    /\ mret.metrics[1].Mp = Num(-50)

\* C19: the metrics computation returns a rise_time for every valid trace,
\* the time the output takes to go from 10% to 90% of its total rise: the
\* returned mapping has the key rise_time and its value is a finite time that
\* is not negative.
C19_ReturnsRiseTime ==
    (mret.kind = "return" /\ ToleranceInRange) =>
        LET m == mret.metrics[1]
        IN  /\ "rise_time" \in DOMAIN m
            /\ IsFinite(m["rise_time"])
            /\ FGe(m["rise_time"], Zero)

\* what the computation returns instead: exactly the seven keys of lines
\* 294-302
C19_ReturnedKeys ==
    mret.kind = "return" =>
        DOMAIN mret.metrics[1] =
            {"ts", "Mp", "ess", "ess_percent", "y_max", "y_final", "settling_band"}

\* C20: a trace whose time vector is not strictly increasing (some
\* t[i] >= t[i+1]) is rejected as an invalid trace; no metrics are returned
\* for it. (Stated for a tolerance in (0, 1), so that the order of the
\* instants is the defect the rejection has to come from.)
C20_RejectsNonMonotonicTime ==
    (mret.kind # "none" /\ ToleranceInRange /\ ~StrictlyIncreasing(margs.t))
    => MetricsRejected

\* what the computation does instead: the order of the instants has no part
\* in the validation, a trace of finite values whose last instant lies before
\* the one preceding it gets metrics
C20_NonMonotonicTimeAccepted ==
    (mret.kind # "none"
       /\ ~(LengthMismatch \/ TooFewSamples \/ NonFiniteTime \/ NonFiniteOut
              \/ ZeroReference \/ ~ToleranceInRange))
    => mret.kind = "return"

\* C21: when the caller passes no tolerance the computation uses 0.05: the
\* settling band it returns is 5% of |yref|.
C21_DefaultBandIsFivePercent ==
    (mret.kind = "return" /\ ~margs.tolerance_given) =>
        mret.metrics[1].settling_band = FMul(<<1, 20>>, FAbs(margs.yref))

\* what the code does: the band without a tolerance is 2% of |yref|
C21_DefaultBandIsTwoPercent ==
    (mret.kind = "return" /\ ~margs.tolerance_given) =>
        mret.metrics[1].settling_band = FMul(<<1, 50>>, FAbs(margs.yref))

-----------------------------------------------------------------------------
(* The open-loop simulation as a state machine: Init draws the transfer    *)
(* function (as create_transfer_function builds it), the arguments and the *)
(* python-control API installed; the action applies the function.          *)

MaxExtraPoints == 1
MaxTFinal == 2

\* denominators: no pole; poles -1, -1/10, -1/250; poles 1 and 0; pole pairs
\* -1 +- i, +- i, 1 +- i; poles -1 and -2
SimDenominators ==
    { <<Num(1)>>, <<Num(1), Num(1)>>, <<Num(10), Num(1)>>, <<Num(1), <<1, 250>>>>,
      <<Num(1), Num(-1)>>, <<Num(1), Zero>>,
      <<Num(1), Num(2), Num(2)>>, <<Num(1), Zero, Num(1)>>, <<Num(1), Num(-2), Num(2)>>,
      <<Num(1), Num(3), Num(2)>> }

\* constant numerators and one of degree 3, above every denominator's degree
SimNumerators == { <<Num(1)>>, <<Num(2)>>, <<Num(1), Zero, Zero, Zero>> }

SimTransferFunctions ==
    {None} \cup
    { Some(create_transfer_function(num, den).tf) : num \in SimNumerators, den \in SimDenominators }

\* None, values that are not positive, and 1, 20, 400, ...
TFinals == {None, Some(Num(-1)), Some(Zero)} \cup {Some(Num(Pow(20, k))) : k \in 0..MaxTFinal}

NumPoints == (MinPoints - 1)..(MinPoints + MaxExtraPoints)

InputMagnitudes == {Zero, Num(1), Num(2)}

InitSim ==
    /\ simargs \in [tf : SimTransferFunctions, t_final : TFinals, num_points : NumPoints,
                     input_magnitude : InputMagnitudes, legacy_pole_api : BOOLEAN]
    /\ simret = [kind |-> "none", msg |-> "", time |-> << >>, output |-> << >>]
    /\ scargs = NoScenarioArgs
    /\ scret = NoScenarioCall
    /\ targs = NoTuningArgs
    /\ tret = NoCall
    /\ cmpret = NoComparison
    /\ stdout = << >>
    /\ tfargs = NoTFArgs
    /\ tfcall = NoTFCall
    /\ margs = NoMetricsArgs
    /\ mret = NoMetricsCall
    /\ session = NoSession
    /\ drun = NoDesignerRun
    /\ rrun = NoResultsRun
    /\ hist = NoHistory
    /\ clargs = NoClosedArgs
    /\ clret = NoClosedCall

CallSimulateStepResponse ==
    /\ simret.kind = "none"
    /\ simret' = simulate_step_response(simargs.tf, simargs.t_final, simargs.num_points,
                                         simargs.input_magnitude, simargs.legacy_pole_api)
    /\ UNCHANGED <<simargs, tuning_vars, tf_vars, metrics_vars, closed_vars, scenario_vars, page_vars>>

NextSim == CallSimulateStepResponse

SpecSim == InitSim /\ [][NextSim]_vars

-----------------------------------------------------------------------------
(* Properties of the open-loop simulation (checked under SpecSim).         *)

\* the real parts of the poles of each denominator, from its factorisation
KnownPoleRealParts ==
    (<<Num(1)>> :> {}) @@
    (<<Num(1), Num(1)>> :> {Num(-1)}) @@
    (<<Num(10), Num(1)>> :> {<<-1, 10>>}) @@
    (<<Num(1), <<1, 250>>>> :> {<<-1, 250>>}) @@
    (<<Num(1), Num(-1)>> :> {Num(1)}) @@
    (<<Num(1), Zero>> :> {Zero}) @@
    (<<Num(1), Num(2), Num(2)>> :> {Num(-1)}) @@
    (<<Num(1), Zero, Num(1)>> :> {Zero}) @@
    (<<Num(1), Num(-2), Num(2)>> :> {Num(1)}) @@
    (<<Num(1), Num(3), Num(2)>> :> {Num(-1), Num(-2)})

SimCalled == simret.kind # "none" /\ simret.kind # "idle"

SimGivenTF == simargs.tf # None

\* some pole of the simulated transfer function is not in the open left half
\* plane
SimNotStable == \E re \in KnownPoleRealParts[simargs.tf[1].den] : re[1] >= 0

SimReturnedNoTrace == simret.time = << >> /\ simret.output = << >>

SimSlowestRealPart ==
    LET parts == KnownPoleRealParts[simargs.tf[1].den]
    IN  CHOOSE re \in parts : \A other \in parts : FLe(other, re)

SimCappedEstimate ==
    LET est == FDiv(Num(5), FAbs(SimSlowestRealPart))
    IN  IF FLt(est, Num(1000)) THEN est ELSE Num(1000)

SimHasPoles == KnownPoleRealParts[simargs.tf[1].den] # {}

SimLastTime == simret.time[Len(simret.time)]

\* C14: when the caller requests a t_final shorter than the settling estimate
\* 5/|Re(slowest pole)| of a stable transfer function, the simulation extends
\* its horizon to that estimate, capped at 1000: the returned time vector ends
\* at the extended horizon and not at the requested t_final.
C14_ShortHorizonExtended ==
    (simret.kind = "return" /\ simargs.t_final # None /\ SimHasPoles
       /\ FLt(simargs.t_final[1], SimCappedEstimate))
    => (SimLastTime = SimCappedEstimate /\ SimLastTime # simargs.t_final[1])

\* what the simulation does instead: a t_final the caller gives is the end of
\* the time vector, whatever the poles; the estimate is used only when
\* t_final is None
C14_RequestedHorizonKept ==
    simret.kind = "return" =>
        /\ simret.time[1] = Zero
        /\ Len(simret.time) = simargs.num_points
        /\ simargs.t_final # None => SimLastTime = simargs.t_final[1]
        /\ (simargs.t_final = None /\ SimHasPoles) => SimLastTime = SimCappedEstimate
        /\ (simargs.t_final = None /\ ~SimHasPoles) => SimLastTime = Num(10)

-----------------------------------------------------------------------------
(* The DC gain as a state machine: Init draws the coefficient lists,       *)
(* create_transfer_function builds the object and get_dc_gain queries it.  *)

MaxGainCoef == 2

\* constant coefficients: small integers and values around 1e-15
ConstantCoefs ==
    {Num(i) : i \in -1..MaxGainCoef}
      \cup {Sci(1, 16), Sci(-1, 16), Sci(9, 16), Sci(1, 15), Sci(-1, 15), Sci(2, 15)}

GainDenominators ==
    UNION { { <<c>>, <<Num(1), c>>, <<Num(10), c>>, <<Num(1), Num(3), c>> } : c \in ConstantCoefs }

GainNumerators == { <<Zero>>, <<Num(1)>>, <<Num(2)>>, <<Num(1), Num(2)>>, <<Num(3), Zero>> }

InitGain ==
    /\ tfargs \in [numerator : GainNumerators, denominator : GainDenominators,
                    tolerance : {DefaultTolerance}]
    /\ tfcall = [created |-> "no", tf |-> NoTF, msg |-> "",
                 stable_called |-> FALSE, stable |-> FALSE, gain |-> NoGain]
    /\ targs = NoTuningArgs
    /\ tret = NoCall
    /\ cmpret = NoComparison
    /\ stdout = << >>
    /\ margs = NoMetricsArgs
    /\ mret = NoMetricsCall
    /\ simargs = NoSimArgs
    /\ simret = NoSimCall
    /\ scargs = NoScenarioArgs
    /\ scret = NoScenarioCall
    /\ session = NoSession
    /\ drun = NoDesignerRun
    /\ rrun = NoResultsRun
    /\ hist = NoHistory
    /\ clargs = NoClosedArgs
    /\ clret = NoClosedCall

CallGetDcGain ==
    /\ tfcall.created = "return"
    /\ tfcall.gain.kind = "none"
    /\ tfcall' = [tfcall EXCEPT !.gain = get_dc_gain(tfcall.tf)]
    /\ UNCHANGED <<tfargs, tuning_vars, metrics_vars, sim_vars, closed_vars, scenario_vars, page_vars>>

NextGain == CallCreateTransferFunction \/ CallGetDcGain

SpecGain == InitGain /\ [][NextGain]_vars

-----------------------------------------------------------------------------
(* Properties of the DC gain (checked under SpecGain).                     *)

GainCalled == tfcall.gain.kind # "none"

\* N(0) and D(0): the constant coefficients of the transfer function asked
NumAtZero == tfcall.tf.num[Len(tfcall.tf.num)]
DenAtZero == tfcall.tf.den[Len(tfcall.tf.den)]

\* the constant coefficients drawn whose magnitude is below 1e-15:
\* 0, 1e-16, -1e-16 and 9e-16 (1e-15, -1e-15 and 2e-15 are not)
BelowGainThreshold == {Zero, Sci(1, 16), Sci(-1, 16), Sci(9, 16)}

\* v = N(0) / D(0), stated as v * D(0) = N(0) on mantissas and exponents
IsGainQuotient(v) ==
    /\ FMul(Mant(v), Mant(DenAtZero)) = Mant(NumAtZero)
    /\ NumAtZero # Zero => Exp10(v) = Exp10(NumAtZero) - Exp10(DenAtZero)

C18_WitnessOnTheThreshold ==
    /\ tfcall.tf = [num |-> <<Num(2)>>, den |-> <<Num(1), Sci(1, 15)>>]
    /\ tfcall.gain = [kind |-> "return", value |-> << <<2, 1, -15>> >>]

\* 2/(10s+1) has the gain 2
C18_WitnessLiteral ==
    /\ tfcall.tf = [num |-> <<Num(2)>>, den |-> <<Num(10), Num(1)>>]
    /\ tfcall.gain = [kind |-> "return", value |-> <<Num(2)>>]

-----------------------------------------------------------------------------
(* Several systems at once: simulate_multiple_scenarios, open_loop.py      *)
(* lines 171-206                                                           *)

ScenarioError(kind, msg) == [kind |-> kind, msg |-> msg, results |-> << >>]

\* lines 202-204: the loop over zip(tf_list, labels) from system i on, with the
\* results gathered so far; an exception of simulate_step_response leaves
\* the function and the list built so far is lost.  input_magnitude keeps its
\* default 1.0.
RECURSIVE ScenarioLoop(_, _, _, _, _, _, _)
ScenarioLoop(tf_list, labels, t_final, num_points, legacy_pole_api, i, results) ==
    IF i > Len(tf_list)
    THEN [kind |-> "return", msg |-> "", results |-> results]
    ELSE LET r == simulate_step_response(Some(tf_list[i]), t_final, num_points, Num(1),
                                         legacy_pole_api)
         IN  IF r.kind # "return"
             THEN ScenarioError(r.kind, r.msg)
             ELSE ScenarioLoop(tf_list, labels, t_final, num_points, legacy_pole_api, i + 1,
                               Append(results, <<r.time, r.output, labels[i]>>))

\* lines 171-206
simulate_multiple_scenarios(tf_list, labels, t_final, num_points, legacy_pole_api) ==
    IF Len(tf_list) # Len(labels)
    THEN ScenarioError("SimulationError", "tf_list y labels deben tener la misma longitud")
    ELSE ScenarioLoop(tf_list, labels, t_final, num_points, legacy_pole_api, 1, << >>)

MaxSystems == 2

\* 1/(s + 1), 1/(10s + 1) and the unstable 1/(s - 1)
ScenarioSystems ==
    { [num |-> <<Num(1)>>, den |-> <<Num(1), Num(1)>>],
      [num |-> <<Num(1)>>, den |-> <<Num(10), Num(1)>>],
      [num |-> <<Num(1)>>, den |-> <<Num(1), Num(-1)>>] }

ScenarioLists == UNION {[1..n -> ScenarioSystems] : n \in 0..MaxSystems}

\* the labels "1", "2", ... of the first n systems
LabelLists == {[i \in 1..n |-> i] : n \in 0..MaxSystems}

InitScenarios ==
    /\ scargs \in [given : {TRUE}, tf_list : ScenarioLists, labels : LabelLists,
                    t_final : {None, Some(Zero), Some(Num(1))},
                    num_points : {MinPoints - 1, MinPoints},
                    legacy_pole_api : BOOLEAN]
    /\ scret = NoScenarioCall
    /\ simargs = NoSimArgs
    /\ simret = NoSimCall
    /\ targs = NoTuningArgs
    /\ tret = NoCall
    /\ cmpret = NoComparison
    /\ stdout = << >>
    /\ tfargs = NoTFArgs
    /\ tfcall = NoTFCall
    /\ margs = NoMetricsArgs
    /\ mret = NoMetricsCall
    /\ session = NoSession
    /\ drun = NoDesignerRun
    /\ rrun = NoResultsRun
    /\ hist = NoHistory
    /\ clargs = NoClosedArgs
    /\ clret = NoClosedCall

CallSimulateMultipleScenarios ==
    /\ scret.kind = "idle"
    /\ scret' = simulate_multiple_scenarios(scargs.tf_list, scargs.labels, scargs.t_final,
                                            scargs.num_points, scargs.legacy_pole_api)
    /\ UNCHANGED <<scargs, tuning_vars, tf_vars, metrics_vars, sim_vars, closed_vars, page_vars>>

NextScenarios == CallSimulateMultipleScenarios

SpecScenarios == InitScenarios /\ [][NextScenarios]_vars

-----------------------------------------------------------------------------
(* Claims about simulate_multiple_scenarios (checked under SpecScenarios) *)

ScenariosCalled == scret.kind # "idle"

SameLengths == Len(scargs.tf_list) = Len(scargs.labels)

\* system i is one simulate_step_response refuses with these arguments: it is
\* not stable, or the number of points or the final time is not valid
ScenarioRefused(i) ==
    \/ \E re \in KnownPoleRealParts[scargs.tf_list[i].den] : re[1] >= 0
    \/ scargs.num_points < 10
    \/ (scargs.t_final # None /\ scargs.t_final[1][1] <= 0)

AnyRefused == \E i \in 1..Len(scargs.tf_list) : ScenarioRefused(i)

\* entry i is the trace of system i with label i
OwnEntry(i) ==
    /\ scret.results[i][3] = scargs.labels[i]
    /\ scret.results[i][2][1].response_of = scargs.tf_list[i]
    /\ Len(scret.results[i][1]) = scargs.num_points

\* C29: simulate_multiple_scenarios returns one (time, output, label) entry
\* per system, in input order and each with its own label; it fails with
\* SimulationError and returns no partial list when the two lists differ in
\* length or when one of the systems is rejected by simulate_step_response.
C29_AllOrSimulationError ==
    ScenariosCalled =>
        /\ (~SameLengths \/ AnyRefused) =>
              (scret.kind = "SimulationError" /\ scret.results = << >>)
        /\ (SameLengths /\ ~AnyRefused) =>
              /\ scret.kind = "return"
              /\ Len(scret.results) = Len(scargs.tf_list)
              /\ \A i \in 1..Len(scargs.tf_list) : OwnEntry(i)

\* the statement holds where the python-control installed has tf.pole(), and
\* whenever the caller gives t_final; no failure returns a partial list
C29_HoldsWithPoleMethod ==
    /\ (scargs.given /\ (scargs.legacy_pole_api \/ scargs.t_final # None))
          => C29_AllOrSimulationError
    /\ scret.kind # "return" => scret.results = << >>

\* 1/(s + 1) and 1/(s - 1) without t_final where tf.pole() does not exist: the
\* estimate for the first system raises AttributeError before the second
\* system is looked at
C29_FailsWithAttributeError ==
    /\ ScenariosCalled /\ SameLengths /\ Len(scargs.tf_list) = 2
    /\ ScenarioRefused(2) /\ ~ScenarioRefused(1)
    /\ scret.kind = "AttributeError"

-----------------------------------------------------------------------------
(* Closed-loop simulation: src/API_BACKEND.py, simulate_closed_loop_with_pid *)

\* lines 447-481: the body of the function is the statement pass, so a call
\* evaluates its arguments and returns None
simulate_closed_loop_with_pid(tf, pid_params, reference, t_final, dt) == None

ClosedLoopPlants ==
    { [num |-> <<Num(1)>>, den |-> <<Num(1), Num(1)>>],
      [num |-> <<Num(2)>>, den |-> <<Num(10), Num(1)>>],
      [num |-> <<Num(1)>>, den |-> <<Num(1), Num(3), Num(2)>>] }

\* PIDParameters: a PI controller has Td = 0, a P controller Ti = inf
ClosedLoopGains ==
    { [Kp |-> kp, Ti |-> ti, Td |-> td] :
        kp \in {Num(1), Num(2)}, ti \in {Num(1), PosInf}, td \in {Zero, <<1, 2>>} }

\* reference and t_final: the defaults 1.0 and 50.0 and one other value;
\* dt: the default 0.01 and one other value
ClosedLoopArgs ==
    { [given |-> TRUE, tf |-> tf, pid_params |-> pid, reference |-> r, t_final |-> tf_, dt |-> dt] :
        tf \in ClosedLoopPlants, pid \in ClosedLoopGains, r \in {Num(1), Num(2)},
        tf_ \in {Num(1), Num(50)}, dt \in {<<1, 100>>, <<1, 2>>} }

InitClosedLoop ==
    /\ clargs \in ClosedLoopArgs
    /\ clret = NoClosedCall
    /\ targs = NoTuningArgs
    /\ tret = NoCall
    /\ cmpret = NoComparison
    /\ stdout = << >>
    /\ tfargs = NoTFArgs
    /\ tfcall = NoTFCall
    /\ margs = NoMetricsArgs
    /\ mret = NoMetricsCall
    /\ simargs = NoSimArgs
    /\ simret = NoSimCall
    /\ scargs = NoScenarioArgs
    /\ scret = NoScenarioCall
    /\ session = NoSession
    /\ drun = NoDesignerRun
    /\ rrun = NoResultsRun
    /\ hist = NoHistory

CallSimulateClosedLoopWithPid ==
    /\ clret.kind = "idle"
    /\ clret' = [kind  |-> "return",
                 value |-> simulate_closed_loop_with_pid(clargs.tf, clargs.pid_params,
                               clargs.reference, clargs.t_final, clargs.dt)]
    /\ UNCHANGED <<clargs, tuning_vars, tf_vars, metrics_vars, sim_vars, scenario_vars, page_vars>>

NextClosedLoop == CallSimulateClosedLoopWithPid

SpecClosedLoop == InitClosedLoop /\ [][NextClosedLoop]_vars

-----------------------------------------------------------------------------
(* Claims about the closed-loop simulation *)

ClosedCalled == clret.kind # "idle"

\* e[k] = reference - y[k], samples counted from 1
ErrorAt(res, k) == FSub(clargs.reference, res.output[k])

RECURSIVE ErrorSum(_, _)
ErrorSum(res, k) == IF k = 0 THEN Zero ELSE FAdd(ErrorSum(res, k - 1), ErrorAt(res, k))

\* Kp*(e[k] + (dt/Ti)*sum(e[..k]) + (Td/dt)*(e[k] - e[k-1])), the integral
\* term zero for an infinite Ti and the derivative term zero for Td = 0
PIDLaw(res, k) ==
    LET pid      == clargs.pid_params
        integral == IF IsInf(pid.Ti) THEN Zero
                    ELSE FMul(FDiv(clargs.dt, pid.Ti), ErrorSum(res, k))
        derivat  == IF pid.Td = Zero THEN Zero
                    ELSE FMul(FDiv(pid.Td, clargs.dt),
                              FSub(ErrorAt(res, k), ErrorAt(res, k - 1)))
    IN  FMul(pid.Kp, FAdd(ErrorAt(res, k), FAdd(integral, derivat)))

\* C15: the closed-loop simulation returns a control signal that is, at every
\* step k, u[k] = Kp*(e[k] + (dt/Ti)*sum(e[0..k]) + (Td/dt)*(e[k] - e[k-1]))
\* with e[k] = reference - y[k]; the integral term is zero when Ti is infinite
\* and the derivative term is zero when Td = 0.
C15_ControlSignalFollowsPIDLaw ==
    ClosedCalled =>
        /\ clret.kind = "return"
        /\ clret.value # None
        /\ Len(clret.value[1].control_signal) = Len(clret.value[1].output)
        /\ \A k \in 2..Len(clret.value[1].output) :
              clret.value[1].control_signal[k] = PIDLaw(clret.value[1], k)

\* what the function does: it returns None, for every plant and every gains
C15_ClosedLoopReturnsNone == ClosedCalled => (clret.kind = "return" /\ clret.value = None)

-----------------------------------------------------------------------------
(* The Designer page: src/app/pages/2_*_Designer.py.  Streamlit runs the   *)
(* whole script on every interaction, with the current values of the       *)
(* widgets; st.session_state outlives the runs.  st.stop() ends a run.     *)

\* lines 76-79: [float(x.strip()) for x in text.split() if x.strip()], the text
\* given as its tokens; float() raises ValueError on a token that is no number
ParseRaises(tokens) == NonNumeric \in Range(tokens)

\* lines 61-82: the numerator is parsed first; a ValueError leaves what has not
\* been assigned yet as the empty list of lines 39-40
ManualEntry(numerador_str, denominador_str) ==
    IF ParseRaises(numerador_str)
    THEN [numerador |-> << >>, denominador |-> << >>]
    ELSE IF ParseRaises(denominador_str)
    THEN [numerador |-> numerador_str, denominador |-> << >>]
    ELSE [numerador |-> numerador_str, denominador |-> denominador_str]

\* lines 90-94
ejemplos ==
    [ Heating |-> [numerador |-> <<Num(2)>>, denominador |-> <<Num(10), Num(1)>>,
                   fopdt |-> [K |-> Num(2), L |-> Num(2), T |-> Num(10)]],
      DCMotor |-> [numerador |-> <<Num(1)>>, denominador |-> <<Num(5), Num(1)>>,
                   fopdt |-> [K |-> Num(1), L |-> <<1, 2>>, T |-> Num(5)]],
      Tank    |-> [numerador |-> <<Num(3)>>, denominador |-> <<Num(8), Num(1)>>,
                   fopdt |-> [K |-> Num(3), L |-> Num(1), T |-> Num(8)]] ]

\* lines 47-147: the sidebar.  It yields the coefficient lists and writes the
\* session: the FOPDT parameters for a preset or an FOPDT entry (not for a
\* manual entry), and the advanced options on every run.
Sidebar(s, w) ==
    LET lists == IF w.entrada_tipo = "Manual Entry"
                 THEN ManualEntry(w.numerador_str, w.denominador_str)
                 ELSE IF w.entrada_tipo = "Preset Example"
                 THEN [numerador |-> ejemplos[w.ejemplo_sel].numerador,
                       denominador |-> ejemplos[w.ejemplo_sel].denominador]
                 ELSE [numerador |-> <<w.K>>, denominador |-> <<w.T, Num(1)>>]
        fopdt == IF w.entrada_tipo = "Manual Entry" THEN s.fopdt_params
                 ELSE IF w.entrada_tipo = "Preset Example"
                 THEN Some(ejemplos[w.ejemplo_sel].fopdt)
                 ELSE Some([K |-> w.K, L |-> w.L, T |-> w.T])
    IN  [ numerador   |-> lists.numerador,
          denominador |-> lists.denominador,
          session     |-> [s EXCEPT !.fopdt_params = fopdt,
                                    !.mostrar_banda = Some(w.mostrar_banda),
                                    !.tolerance = Some(w.tolerance),
                                    !.show_verification = Some(w.show_verification)] ]

\* the outcome of a run: the input method, the status, the transfer function built, what the
\* stability check showed, the FOPDT parameters given to the tuning function
\* and whether they were estimated from the transfer function in this run
Outcome(entrada_tipo, status, tf, stable, fopdt, estimated, printed) ==
    [entrada_tipo |-> entrada_tipo, status |-> status, tf |-> tf, stable |-> stable, fopdt |-> fopdt,
     estimated |-> estimated, printed |-> printed]

\* lines 234-255: K is the DC gain, L is 0.1, T is |-1 / Re(poles[0])| when
\* that real part is above 1e-10 in magnitude and 10 otherwise.  numpy does not
\* fix which pole comes first: first is its index
EstimateFOPDT(tf, first) ==
    LET dc    == get_dc_gain(tf)
        poles == get_poles(tf)
        re    == poles[IF first <= Len(poles) THEN first ELSE 1].re
        T     == IF Len(poles) > 0 /\ ~AbsAtMostPow10(re, 10)
                 THEN FAbs(FDiv(Num(-1), re))
                 ELSE Num(10)
    IN  IF dc.kind # "return" THEN None
        ELSE Some([K |-> dc.value[1], L |-> <<1, 10>>, T |-> T])

\* lines 264-310: the tuning call, the checks of lines 281-285 and the store of
\* line 288
Tune(K, L, T, w) ==
    LET r == IF w.metodo = "Ziegler-Nichols"
             THEN sintonia_pid_ziegler_nichols(K, L, T, w.control_type)
             ELSE sintonia_pid_cohen_coon(K, L, T, w.criterio, w.control_type)
    IN  IF r.kind = "TuningError" THEN [status |-> "tuning_error", pid |-> None, printed |-> r.printed]
        ELSE IF r.kind # "return" THEN [status |-> "unexpected_error", pid |-> None, printed |-> r.printed]
        ELSE IF FLe(r.gains[1], Zero) \/ FLt(r.gains[2], Zero) \/ FLt(r.gains[3], Zero)
        THEN [status |-> "unexpected_error", pid |-> None, printed |-> r.printed]
        ELSE [status |-> "computed", printed |-> r.printed,
              pid |-> Some([Kp |-> r.gains[1], Ti |-> r.gains[2], Td |-> r.gains[3]])]

\* lines 165-392: what follows the sidebar
Compute(s, numerador, denominador, w, first) ==
    IF ~(w.calcular /\ numerador # << >> /\ denominador # << >>)
    THEN [session |-> s, run |-> Outcome(w.entrada_tipo, "not_computed", None, None, None, FALSE, << >>)]
    ELSE IF \A i \in 1..Len(denominador) : denominador[i] = Zero
    THEN [session |-> s, run |-> Outcome(w.entrada_tipo, "input_error", None, None, None, FALSE, << >>)]
    ELSE LET made == create_transfer_function(numerador, denominador)
         IN  IF made.kind # "return"
             THEN [session |-> s, run |-> Outcome(w.entrada_tipo, "tf_error", None, None, None, FALSE, << >>)]
             ELSE LET tf     == made.tf
                      s1     == [s EXCEPT !.transfer_function = Some(tf)]       \* line 181
                      stable == Some(is_stable(tf, DefaultTolerance))           \* line 209
                      stored == s1.fopdt_params # None                          \* line 230
                      fopdt  == IF stored THEN s1.fopdt_params ELSE EstimateFOPDT(tf, first)
                  IN  IF fopdt = None
                      THEN [session |-> s1,
                            run |-> Outcome(w.entrada_tipo, "fopdt_error", Some(tf), stable, None, FALSE, << >>)]
                      ELSE LET s2 == [s1 EXCEPT !.fopdt_params = fopdt]          \* line 255
                               t  == Tune(fopdt[1].K, fopdt[1].L, fopdt[1].T, w)
                           IN  [session |-> IF t.status = "computed"
                                            THEN [s2 EXCEPT !.pid_params = t.pid]
                                            ELSE s2,
                                run |-> Outcome(w.entrada_tipo, t.status, Some(tf), stable, fopdt,
                                                ~stored, t.printed)]

\* one run of the script
DesignerScript(s, w, first) ==
    LET side == Sidebar(s, w)
    IN  Compute(side.session, side.numerador, side.denominador, w, first)

\* the text fields: a number in each (s + 1; (s - 1)(s - 2), whose first pole
\* may be either; s - 1; s; 0), an empty field, text that is no number
ManualEntries ==
    { [numerador_str |-> <<Num(1)>>, denominador_str |-> d, first |-> 1] :
        d \in { <<Num(1), Num(1)>>, <<Num(1), Num(-3), Num(2)>>, <<Num(1), Num(-1)>>,
                <<Num(1), Zero>>, <<Zero>>, << >>, <<Num(1), NonNumeric>> } }
    \cup
    { [numerador_str |-> n, denominador_str |-> <<Num(1), Num(1)>>, first |-> 1] :
        n \in { << >>, <<NonNumeric>> } }
    \cup
    { [numerador_str |-> <<Num(1)>>, denominador_str |-> <<Num(1), Num(-3), Num(2)>>,
       first |-> 2] }

MaxDelay == 2

\* the FOPDT entry: K and T at their defaults, L from its minimum 0
FOPDTEntries == {[K |-> Num(2), L |-> Num(l), T |-> Num(10)] : l \in {0, MaxDelay}}

\* the tuning section of the sidebar and the COMPUTE PID button: the criterion
\* at its default; without the button pressed the run reads none of these,
\* and they stand at their defaults
Controls ==
    { [calcular |-> TRUE, metodo |-> "Ziegler-Nichols", criterio |-> "None", control_type |-> c] :
        c \in {"PI", "PID"} }
    \cup
    { [calcular |-> TRUE, metodo |-> "Cohen-Coon", criterio |-> "IAE", control_type |-> c] :
        c \in {"PI", "PID"} }
    \cup
    { [calcular |-> FALSE, metodo |-> "Ziegler-Nichols", criterio |-> "None", control_type |-> "PI"] }

\* the input section of the sidebar; the widgets of the branches not taken
\* stand at their defaults
Widgets ==
    { [entrada_tipo |-> "Manual Entry", numerador_str |-> m.numerador_str,
       denominador_str |-> m.denominador_str, first |-> m.first,
       ejemplo_sel |-> "Heating", K |-> Num(2), L |-> Num(2), T |-> Num(10)]
        : m \in ManualEntries }
    \cup
    { [entrada_tipo |-> "Preset Example", numerador_str |-> <<Num(1)>>,
       denominador_str |-> <<Num(10), Num(1)>>, first |-> 1,
       ejemplo_sel |-> e, K |-> Num(2), L |-> Num(2), T |-> Num(10)]
        : e \in DOMAIN ejemplos }
    \cup
    { [entrada_tipo |-> "FOPDT (K, L, T)", numerador_str |-> <<Num(1)>>,
       denominador_str |-> <<Num(10), Num(1)>>, first |-> 1,
       ejemplo_sel |-> "Heating", K |-> f.K, L |-> f.L, T |-> f.T]
        : f \in FOPDTEntries }

\* the advanced options at their defaults (lines 145-147)
AdvancedDefaults == [mostrar_banda |-> TRUE, tolerance |-> <<1, 50>>, show_verification |-> TRUE]

\* the page is not the one shown
DesignerHidden == Outcome("none", "none", None, None, None, FALSE, << >>)

-----------------------------------------------------------------------------
(* The Results page: src/app/pages/3_*_Results.py, its guard and the       *)
(* closed-loop traces of the Plots tab and of the Metrics tab.  The        *)
(* imports of lines 27-36 are taken to succeed.                            *)

\* the outcome of a run: the status, the closed-loop trace of the Plots tab and
\* the trace the Metrics tab computes its metrics from
ResultsOutcome(status, closed, metrics_trace) ==
    [status |-> status, closed_loop |-> closed, metrics_trace |-> metrics_trace]

ResultsHidden == ResultsOutcome("none", None, None)

\* line 235 and lines 237-238: wn = np.sqrt(Kp / K), nan for a negative
\* quotient, replaced by 0.5 when below 0.1.  The root is kept as the number
\* it is the root of.
NaturalFrequency(Kp, K) ==
    LET q == FDiv(Kp, K)
    IN  IF IsNaN(q) \/ FLt(q, Zero) THEN [kind |-> "nan", of |-> NaN]
        ELSE IF FLt(q, <<1, 100>>) THEN [kind |-> "value", of |-> <<1, 2>>]
        ELSE [kind |-> "sqrt", of |-> q]

\* lines 227-246: y_closed is the step response of a second-order system of
\* damping zeta and natural frequency wn, scaled by yref, on
\* np.linspace(0, t_final, num_puntos); Ti and Td are not read and no control
\* signal is computed
ClosedLoopApproximation(s, Kp, K, w) ==
    [ t     |-> [from |-> Zero, to |-> w.t_final, points |-> w.num_puntos],
      zeta  |-> IF s.metodo = Some("Ziegler-Nichols") THEN <<1, 5>> ELSE <<7, 20>>,
      wn    |-> NaturalFrequency(Kp, K),
      yref  |-> w.yref ]

\* lines 314-329: the trace of the Metrics tab, on np.linspace(0, 50, 1000)
\* with zeta = 0.2, yref = 1.0 and wn = sqrt(Kp / K) for K > 0 and 0.5 otherwise
MetricsTabTrace(Kp, K) ==
    [ t     |-> [from |-> Zero, to |-> Num(50), points |-> 1000],
      zeta  |-> <<1, 5>>,
      wn    |-> IF FGt(K, Zero) THEN NaturalFrequency(Kp, K)
                ELSE [kind |-> "value", of |-> <<1, 2>>],
      yref  |-> Num(1) ]

\* the page with a guard that asks for the transfer function only
ResultsScriptWithoutGainsGuard(s, w) ==
    IF s.transfer_function = None
    THEN [session |-> s, run |-> ResultsOutcome("no_data", None, None)]
    ELSE LET fopdt_params == IF s.fopdt_params = None
                             THEN [K |-> Num(1), L |-> Num(1), T |-> Num(5)]
                             ELSE s.fopdt_params[1]
             Kp == IF s.pid_params = None THEN Zero ELSE s.pid_params[1].Kp
         IN  [session |-> [s EXCEPT !.fig_resultados = Some(TRUE)],
              run |-> ResultsOutcome("shown",
                          Some(ClosedLoopApproximation(s, Kp, fopdt_params.K, w)),
                          Some(MetricsTabTrace(Kp, fopdt_params.K)))]

\* lines 47-57: without PID gains or without a transfer function in the
\* session the page shows an error and stops; lines 63-74: the values are read
\* from the session; lines 185-299: the traces are computed and the figure is
\* stored in the session (kept here as the fact that there is one); lines
\* 308-339: the Metrics tab computes its own trace
ResultsScript(s, w) ==
    IF s.pid_params = None \/ s.transfer_function = None
    THEN [session |-> s, run |-> ResultsOutcome("no_data", None, None)]
    ELSE LET fopdt_params == IF s.fopdt_params = None
                             THEN [K |-> Num(1), L |-> Num(1), T |-> Num(5)]
                             ELSE s.fopdt_params[1]
             Kp == s.pid_params[1].Kp
         IN  [session |-> [s EXCEPT !.fig_resultados = Some(TRUE)],
              run |-> ResultsOutcome("shown",
                          Some(ClosedLoopApproximation(s, Kp, fopdt_params.K, w)),
                          Some(MetricsTabTrace(Kp, fopdt_params.K)))]

\* the sliders of the Plots tab: t_final at its minimum and its default,
\* num_puntos at its minimum, yref at its default
ResultsWidgets ==
    { [t_final |-> Num(tf_), num_puntos |-> 100, yref |-> Num(1)] : tf_ \in {5, 50} }

-----------------------------------------------------------------------------
(* The Home page: src/app/pages/1_*_Home.py, the examples of its second tab *)

\* lines 127-160: K, L and T of ejemplos_data
ejemplos_data ==
    [ HeatingSystem     |-> [K |-> Num(2), L |-> Num(2), T |-> Num(10)],
      DCMotor           |-> [K |-> Num(1), L |-> <<1, 10>>, T |-> Num(5)],
      MixingTank        |-> [K |-> Num(3), L |-> Num(1), T |-> Num(8)],
      IndustrialFurnace |-> [K |-> <<3, 2>>, L |-> Num(5), T |-> Num(15)] ]

\* lines 180-182: the button 'Load this model in Designer'
LoadThisModel(s, ejemplo) == [s EXCEPT !.ejemplo_seleccionado = Some(ejemplos_data[ejemplo])]

\* the examples selected in the runs: the one that is no preset of the Designer
HomeChoices == {"IndustrialFurnace"}

-----------------------------------------------------------------------------
(* The pages as a state machine: a session starts empty, every action is   *)
(* one run of a page with some values of its widgets.                      *)

\* src/app/main.py lines 63-74 set transfer_function and pid_params to None;
\* the other keys are absent, which .get() reads as None
EmptySession ==
    [started |-> TRUE, transfer_function |-> None, pid_params |-> None, fopdt_params |-> None,
     mostrar_banda |-> None, tolerance |-> None, show_verification |-> None,
     metodo |-> None, fig_resultados |-> None, ejemplo_seleccionado |-> None]

\* nothing has been tuned yet
EmptyHistory == [started |-> TRUE, computed_once |-> FALSE, tuned_by |-> None]

\* the history after a run of the Designer: a run that stores PID gains is
\* remembered with the method selected in it
Remember(h, run, metodo) ==
    IF run.status = "computed"
    THEN [h EXCEPT !.computed_once = TRUE, !.tuned_by = Some(metodo)]
    ELSE h

InitPages ==
    /\ session = EmptySession
    /\ drun = DesignerHidden
    /\ rrun = ResultsHidden
    /\ hist = EmptyHistory
    /\ targs = NoTuningArgs
    /\ tret = NoCall
    /\ cmpret = NoComparison
    /\ stdout = << >>
    /\ tfargs = NoTFArgs
    /\ tfcall = NoTFCall
    /\ margs = NoMetricsArgs
    /\ mret = NoMetricsCall
    /\ simargs = NoSimArgs
    /\ simret = NoSimCall
    /\ scargs = NoScenarioArgs
    /\ scret = NoScenarioCall
    /\ clargs = NoClosedArgs
    /\ clret = NoClosedCall

DesignerRun ==
    /\ \E w \in Widgets, c \in Controls :
          LET all == [entrada_tipo |-> w.entrada_tipo, numerador_str |-> w.numerador_str,
                      denominador_str |-> w.denominador_str, ejemplo_sel |-> w.ejemplo_sel,
                      K |-> w.K, L |-> w.L, T |-> w.T,
                      metodo |-> c.metodo, criterio |-> c.criterio,
                      control_type |-> c.control_type, calcular |-> c.calcular,
                      mostrar_banda |-> AdvancedDefaults.mostrar_banda,
                      tolerance |-> AdvancedDefaults.tolerance,
                      show_verification |-> AdvancedDefaults.show_verification]
          IN  \E r \in {DesignerScript(session, all, w.first)} :
                  /\ session' = r.session
                  /\ drun' = r.run
                  /\ hist' = Remember(hist, r.run, c.metodo)
    /\ rrun' = ResultsHidden
    /\ UNCHANGED <<tuning_vars, tf_vars, metrics_vars, sim_vars, closed_vars, scenario_vars>>

ResultsRun ==
    /\ \E w \in ResultsWidgets :
          \E r \in {ResultsScript(session, w)} :
              /\ session' = r.session
              /\ rrun' = r.run
    /\ drun' = DesignerHidden
    /\ UNCHANGED <<hist, tuning_vars, tf_vars, metrics_vars, sim_vars, closed_vars, scenario_vars>>

HomeLoad ==
    /\ \E ejemplo \in HomeChoices : session' = LoadThisModel(session, ejemplo)
    /\ drun' = DesignerHidden
    /\ rrun' = ResultsHidden
    /\ UNCHANGED <<hist, tuning_vars, tf_vars, metrics_vars, sim_vars, closed_vars, scenario_vars>>

NextPages == DesignerRun \/ ResultsRun \/ HomeLoad

SpecPages == InitPages /\ [][NextPages]_vars

-----------------------------------------------------------------------------
(* Claims about the Designer page *)

\* the denominators of DenominadorTexts with a root of real part >= 0:
\* (s - 1)(s - 2), s - 1 and s
NotBIBOStableDenominators ==
    { <<Num(1), Num(-3), Num(2)>>, <<Num(1), Num(-1)>>, <<Num(1), Zero>> }

RanOnUnstable == drun.tf # None /\ drun.tf[1].den \in NotBIBOStableDenominators

\* C16: for a transfer function that is not BIBO-stable the identification of
\* the FOPDT model fails: the run produces no FOPDT model and computes no PID
\* gains.
C16_UnstableNotIdentified ==
    RanOnUnstable => (drun.fopdt = None /\ drun.status # "computed" /\ session.pid_params = None)

\* what the page does instead: it reports the transfer function as unstable
\* and goes on to the estimation
C16_UnstableOnlyReported == RanOnUnstable => drun.stable = Some(FALSE)

\* 1/((s - 1)(s - 2)) typed into an empty session: K = 0.5, L = 0.1 and T from
\* the first pole are estimated and PID gains are stored
C16_UnstableTuned ==
    /\ RanOnUnstable
    /\ drun.tf[1].den = <<Num(1), Num(-3), Num(2)>>
    /\ drun.estimated
    /\ drun.status = "computed"
    /\ drun.fopdt[1].K = <<1, 2>>
    /\ session.pid_params # None

-----------------------------------------------------------------------------
(* Output of the tuning functions (checked under SpecTuning) *)

\* C22: no core operation writes a log or a message for the user: after a
\* call of a tuning function nothing has been printed, also when
\* Ziegler-Nichols is called with L/T > 0.5.
C22_CoreWritesNothing ==
    (tret.fn # "none" \/ cmpret.kind # "none") => stdout = << >>

\* what is printed is printed by Ziegler-Nichols (called directly or by the
\* comparison) for a model with L/T > 0.5; Cohen-Coon called alone is silent
C22_OnlyHighRatioPrints ==
    /\ stdout # << >> => (FGt(FMul(Num(2), targs.L), targs.T)
                             /\ (tret.fn = "ZN" \/ cmpret.kind # "none"))
    /\ tret.fn = "CC" => stdout = << >>

-----------------------------------------------------------------------------
(* Claims about the session shared by the pages (checked under SpecPages) *)

\* the FOPDT parameters of the transfer functions 1/den of ManualEntries that
\* have a DC gain: K = 1/den(0), L = 0.1, T = |1/p| for a pole p
EstimatesOf ==
    (<<Num(1), Num(1)>> :> {[K |-> Num(1), L |-> <<1, 10>>, T |-> Num(1)]}) @@
    (<<Num(1), Num(-3), Num(2)>> :> {[K |-> <<1, 2>>, L |-> <<1, 10>>, T |-> Num(1)],
                                     [K |-> <<1, 2>>, L |-> <<1, 10>>, T |-> <<1, 2>>]}) @@
    (<<Num(1), Num(-1)>> :> {[K |-> Num(-1), L |-> <<1, 10>>, T |-> Num(1)]})

ManualComputed == drun.entrada_tipo = "Manual Entry" /\ drun.status = "computed"

\* C23: whenever COMPUTE PID succeeds with Manual Entry, the FOPDT parameters
\* given to the tuning function are those estimated from the transfer function
\* entered in that run, whatever was selected in earlier runs of the session.
C23_ManualTunesItsOwnTransferFunction ==
    ManualComputed => drun.fopdt[1] \in EstimatesOf[drun.tf[1].den]

\* what the page does: it estimates only when the session holds no FOPDT
\* parameters; with an empty session the claim's statement holds
C23_ManualEstimatesOnlyOnce ==
    (ManualComputed /\ drun.estimated) => drun.fopdt[1] \in EstimatesOf[drun.tf[1].den]

\* 1/(s + 1) typed in after the preset Heating was selected: tuned with the
\* preset's K = 2, L = 2, T = 10
C23_TunedWithStalePreset ==
    /\ ManualComputed
    /\ drun.tf[1].den = <<Num(1), Num(1)>>
    /\ ~drun.estimated
    /\ drun.fopdt[1] = [K |-> Num(2), L |-> Num(2), T |-> Num(10)]

\* the statuses of a run that pressed COMPUTE PID and stored no gains
FailedStatuses == {"input_error", "tf_error", "fopdt_error", "tuning_error", "unexpected_error"}

\* C24: PID gains in the session were computed in the run that stored the
\* session's current transfer function: a run of the Designer that fails
\* leaves the stored transfer function and the stored gains as they were.
C24_FailedRunLeavesSessionAsItWas ==
    [][ drun'.status \in FailedStatuses =>
            /\ session'.transfer_function = session.transfer_function
            /\ session'.pid_params = session.pid_params ]_vars

\* what holds: a failed run leaves the gains as they were, and a run that
\* stores gains stores them with its own transfer function
C24_GainsStoredWithTransferFunction ==
    /\ session.pid_params # None => session.transfer_function # None
    /\ drun.status = "computed" =>
          (session.transfer_function = drun.tf /\ session.pid_params # None)

\* gains computed in one run, then an FOPDT entry with L = 0: step 1 stores
\* the new transfer function 2/(10s + 1), the tuning fails, the gains stay
C24_GainsOfAnotherRun ==
    /\ session.pid_params # None
    /\ drun.status \in {"tuning_error", "unexpected_error"}
    /\ drun.entrada_tipo = "FOPDT (K, L, T)"
    /\ session.transfer_function = drun.tf
    /\ session.fopdt_params[1].L = Zero

\* the damping of the trace the Results page shows
ShownDamping == rrun.closed_loop[1].zeta

\* C25: the closed-loop response of the Results page has damping 0.2 when the
\* PID gains in the session were computed with Ziegler-Nichols and 0.35 when
\* they were computed with Cohen-Coon.
C25_DampingFollowsTuningMethod ==
    rrun.status = "shown" =>
        ShownDamping = (IF hist.tuned_by = Some("Ziegler-Nichols") THEN <<1, 5>> ELSE <<7, 20>>)

\* what the page does: no page writes the key 'metodo' the damping is chosen
\* by, so the damping is 0.35 whatever the method was
C25_DampingIsAlwaysCohenCoons ==
    /\ session.metodo = None
    /\ rrun.status = "shown" => ShownDamping = <<7, 20>>

\* gains computed with Ziegler-Nichols, shown with damping 0.35
C25_ZieglerNicholsShownWithOtherDamping ==
    /\ rrun.status = "shown"
    /\ hist.tuned_by = Some("Ziegler-Nichols")
    /\ ShownDamping = <<7, 20>>

\* C26: the metrics of the Metrics tab are computed from the closed-loop trace
\* plotted in the Plots tab for the current settings: same damping, same
\* reference, same time horizon and sample count.
C26_MetricsOfThePlottedTrace ==
    rrun.status = "shown" => rrun.metrics_trace = rrun.closed_loop

\* what the two tabs share is the natural frequency; the damping differs in
\* every run, 0.2 for the metrics and 0.35 for the plot
C26_TracesShareOnlyFrequency ==
    rrun.status = "shown" =>
        /\ rrun.metrics_trace[1].wn = rrun.closed_loop[1].wn
        /\ rrun.metrics_trace[1].zeta # rrun.closed_loop[1].zeta
        /\ rrun.metrics_trace[1].t.points # rrun.closed_loop[1].t.points

\* the sliders at their defaults (horizon 50, reference 1): the plot has
\* damping 0.35, the metrics are those of damping 0.2
C26_DefaultsDisagree ==
    /\ rrun.status = "shown"
    /\ rrun.closed_loop[1].t.to = Num(50) /\ rrun.closed_loop[1].yref = Num(1)
    /\ rrun.closed_loop[1].zeta = <<7, 20>>
    /\ rrun.metrics_trace[1].zeta = <<1, 5>>

ResultsRan == rrun.status # "none"

SessionHasBoth == session.pid_params # None /\ session.transfer_function # None

\* C27: the Results page shows its content only when the session holds both
\* PID gains and a transfer function, which is only after a COMPUTE PID of the
\* Designer has succeeded in the session; in every other case it stops at the
\* 'No data available' message.
C27_ResultsOnlyAfterSuccessfulCompute ==
    ResultsRan =>
        /\ rrun.status = (IF SessionHasBoth THEN "shown" ELSE "no_data")
        /\ rrun.status = "shown" => hist.computed_once
        /\ rrun.status = "no_data" => (rrun.closed_loop = None /\ rrun.metrics_trace = None)

\* the page opened after a COMPUTE PID that failed in the tuning: a transfer
\* function is stored, gains are not, nothing is shown
C27_Witness ==
    /\ rrun.status = "no_data"
    /\ session.transfer_function # None
    /\ session.pid_params = None
    /\ ~hist.computed_once

\* the page opened after a successful COMPUTE PID
C27_WitnessShown ==
    /\ rrun.status = "shown" /\ SessionHasBoth /\ hist.computed_once

\* the Home page is the one shown, with a model loaded
HomeLoaded == drun = DesignerHidden /\ rrun = ResultsHidden /\ session.ejemplo_seleccionado # None

\* C28: after 'Load this model in Designer' on the Home page, the next COMPUTE
\* PID in the Designer tunes with the K, L and T of the model chosen there.
C28_NextComputeUsesLoadedModel ==
    [][ (HomeLoaded /\ drun'.status = "computed") =>
            drun'.fopdt = session.ejemplo_seleccionado ]_vars

\* what the Designer does: it never reads the key the Home page writes; a run
\* tunes with the parameters of its own input method or with those a former
\* run of the Designer left in the session
C28_LoadedModelIsNeverTunedWith ==
    (drun.status = "computed" /\ session.ejemplo_seleccionado # None) =>
        drun.fopdt # session.ejemplo_seleccionado

\* the Industrial Furnace loaded, then COMPUTE PID: tuned with the preset
\* Heating (K = 2, L = 2, T = 10), the first choice of the Designer
C28_TunedWithDesignerPreset ==
    /\ session.ejemplo_seleccionado = Some(ejemplos_data["IndustrialFurnace"])
    /\ drun.status = "computed"
    /\ drun.entrada_tipo = "Preset Example"
    /\ drun.fopdt = Some(ejemplos["Heating"].fopdt)

-----------------------------------------------------------------------------
(* Marginally stable systems in simulate_step_response (checked under SpecSim) *)

\* no pole in the open right half plane and at least one on the imaginary
\* axis: 1/s and 1/(s^2 + 1) among SimDenominators
SimMarginallyStable ==
    LET parts == KnownPoleRealParts[simargs.tf[1].den]
    IN  /\ \E re \in parts : re[1] = 0
        /\ \A re \in parts : re[1] <= 0

\* a final time, a number of points and an input magnitude that are valid,
\* and a numerator of no higher degree than the denominator
SimValidArguments ==
    /\ simargs.t_final # None /\ FGt(simargs.t_final[1], Zero)
    /\ simargs.num_points >= 10
    /\ FGt(simargs.input_magnitude, Zero)
    /\ Len(simargs.tf[1].num) <= Len(simargs.tf[1].den)

\* C30: for a marginally stable system such as an integrator,
\* simulate_step_response simulates up to the full t_final and returns the
\* trace.
C30_MarginalSimulatedToTFinal ==
    (SimCalled /\ SimGivenTF /\ SimMarginallyStable /\ SimValidArguments) =>
        /\ simret.kind = "return"
        /\ Len(simret.time) = simargs.num_points
        /\ simret.time[Len(simret.time)] = simargs.t_final[1]

\* what the function does: is_stable is false for a pole on the imaginary
\* axis, and the call is refused like that of an unstable system
C30_MarginalRefused ==
    (SimCalled /\ SimGivenTF /\ SimMarginallyStable) =>
        (simret.kind = "SimulationError"
            /\ simret.msg = "No se puede simular un sistema inestable"
            /\ SimReturnedNoTrace)

\* the integrator 1/s with valid arguments
C30_IntegratorRefused ==
    /\ SimCalled
    /\ simargs.tf = Some([num |-> <<Num(1)>>, den |-> <<Num(1), Zero>>])
    /\ SimValidArguments
    /\ simret.kind = "SimulationError"

====
